---- MODULE Spec2Model ----
(***************************************************************************)
(* tokio-tracer: the routing engine.  The rule model (matches, Matcher,    *)
(* MatcherSet), the dispatcher loop (TracingDispatcher::run) with its two  *)
(* unbounded mpsc queues, the per-event capture/silence/drop decision and  *)
(* the command protocol, together with the senders that feed the queues    *)
(* (Tracer, TracingSubscriber).                                            *)
(*                                                                         *)
(* Strings are sequences of one-character strings: <<"s", "*">> is "s*".   *)
(* An Option<T> is a sequence of length 0 (None) or 1 (Some(x)).           *)
(***************************************************************************)
EXTENDS Integers, Sequences, FiniteSets, TLC

\* ------------------------------------------------------------- bounds
\* events emitted in one run
MaxEvents == 2
\* commands sent in one run
MaxCmds == 2
\* characters of a pattern and of a value handed to matches
MaxPattern == 3
MaxValue == 3
\* threads that can be inside TracingSubscriber::event at once
MaxThreads == 2

Range(seq) == {seq[i] : i \in DOMAIN seq}
Last(seq) == seq[Len(seq)]

\* ---------------------------------------------------- pattern matching
None == << >>
Some(x) == << x >>

\* pattern.replace("*", ".*")
RECURSIVE replace(_)
replace(pattern) ==
  IF pattern = << >> THEN << >>
  ELSE (IF Head(pattern) = "*" THEN << ".", "*" >> ELSE << Head(pattern) >>)
         \o replace(Tail(pattern))

\* Regex::new: the expression as a sequence of items, or CompileError.  An
\* item is one character ("." is any character but the line feed, every other
\* character not named here is a literal) taken min to 1 times, or min to any
\* number of times (many).  "*", "?" and "+" quantify the item before them; a
\* "?" right after a quantifier only makes it lazy, which changes no is_match.
\* "[" and "(" open a class or a group (never closed in the patterns used
\* here).  A quantifier with no item before it repeats the "^" the expression
\* starts with, which takes nothing from the value.
CompileError == << [any |-> FALSE, ch |-> "error", min |-> 1, many |-> FALSE, q |-> FALSE] >>

Quantify(it, c) ==
  IF c = "?" /\ it.q THEN [it EXCEPT !.q = FALSE]
  ELSE [it EXCEPT !.min = IF c = "+" THEN @ ELSE 0,
                  !.many = IF c = "?" THEN @ ELSE TRUE,
                  !.q = TRUE]

RECURSIVE compile(_, _)
compile(re, acc) ==
  IF re = << >> THEN acc
  ELSE LET c == Head(re) IN
    IF c \in {"[", "("} THEN CompileError
    ELSE IF c \in {"*", "?", "+"} THEN
      IF acc = << >> THEN compile(Tail(re), acc)
      ELSE compile(Tail(re), [acc EXCEPT ![Len(acc)] = Quantify(@, c)])
    ELSE compile(Tail(re),
                 Append(acc, [any |-> c = ".", ch |-> c, min |-> 1, many |-> FALSE,
                              q |-> FALSE]))

\* Regex::is_match of the anchored expression ^items$ on the whole value
RECURSIVE is_match(_, _)
is_match(items, value) ==
  IF items = << >> THEN value = << >>
  ELSE LET it == Head(items)
           hit == value /= << >>
                  /\ (IF it.any THEN Head(value) /= "\n" ELSE it.ch = Head(value))
           again == IF it.many THEN << [it EXCEPT !.min = 0] >> ELSE << >>
       IN \/ it.min = 0 /\ is_match(Tail(items), value)
          \/ hit /\ is_match(again \o Tail(items), Tail(value))

\* matches comparing the two strings when the pattern does not compile
matchesOrEqual(pattern, value) ==
  LET re == compile(replace(pattern), << >>)
  IN IF re = CompileError THEN pattern = value ELSE is_match(re, value)

\* pub fn matches(pattern, value)
matches(pattern, value) ==
  LET re == compile(replace(pattern), << >>)
  IN IF re = CompileError THEN FALSE ELSE is_match(re, value)

\* ------------------------------------------------------------- Matcher
Levels == {"TRACE", "DEBUG", "INFO", "WARN", "ERROR"}

\* LevelCheck with the comparison turned round: the levels up to the rule's level
LevelCheckAtMost(level) ==
  CASE level = "ERROR" -> Levels
    [] level = "WARN"  -> {"WARN", "INFO", "DEBUG", "TRACE"}
    [] level = "INFO"  -> {"INFO", "DEBUG", "TRACE"}
    [] level = "DEBUG" -> {"DEBUG", "TRACE"}
    [] level = "TRACE" -> {"TRACE"}

\* the event levels that pass the level check of a rule of this level
LevelCheck(level) ==
  CASE level = "ERROR" -> {"ERROR"}
    [] level = "WARN"  -> {"ERROR", "WARN"}
    [] level = "INFO"  -> {"ERROR", "WARN", "INFO"}
    [] level = "DEBUG" -> {"ERROR", "WARN", "INFO", "DEBUG"}
    [] level = "TRACE" -> Levels

\* AnyPattern asking every pattern of the list to match
AllPatterns(patterns, value) ==
  \A i \in DOMAIN patterns : matches(patterns[i], value)

\* for pattern in patterns { if matches(pattern, value) { matched = true; break } }
AnyPattern(patterns, value) ==
  \E i \in DOMAIN patterns : matches(patterns[i], value)

\* ModuleCheck taking an absent module path for the empty string
ModuleCheckEmptyPath(m, event) ==
  m.module_patterns = << >>
  \/ AnyPattern(m.module_patterns, IF event.module_path /= None
                                   THEN event.module_path[1] ELSE << >>)

ModuleCheck(m, event) ==
  IF event.module_path /= None
  THEN m.module_patterns = << >> \/ AnyPattern(m.module_patterns, event.module_path[1])
  ELSE m.module_patterns = << >>
       \/ \E i \in DOMAIN m.module_patterns : m.module_patterns[i] = << "*" >>

\* FileCheck with the exemption of the module check: "*" passes an absent file
FileCheckWildcard(m, event) ==
  m.file_patterns = << >>
  \/ (event.file /= None /\ AnyPattern(m.file_patterns, event.file[1]))
  \/ (event.file = None /\ \E i \in DOMAIN m.file_patterns : m.file_patterns[i] = << "*" >>)

FileCheck(m, event) ==
  m.file_patterns = << >>
  \/ (event.file /= None /\ AnyPattern(m.file_patterns, event.file[1]))

SpanCheck(m, event) ==
  m.span_patterns = << >>
  \/ (event.span_name /= None /\ AnyPattern(m.span_patterns, event.span_name[1]))

TargetCheck(m, event) ==
  m.target_patterns = << >> \/ AnyPattern(m.target_patterns, event.target)

\* Matcher::matches
MatcherMatches(m, event) ==
  /\ event.level \in LevelCheck(m.level)
  /\ ModuleCheck(m, event)
  /\ FileCheck(m, event)
  /\ SpanCheck(m, event)
  /\ TargetCheck(m, event)

\* Matcher::new(level), then the builder calls
Matcher(level, include, mods, files, spans, targets) ==
  [level |-> level, include |-> include, module_patterns |-> mods,
   file_patterns |-> files, span_patterns |-> spans, target_patterns |-> targets]

\* ------------------------------------------------ the events and rules
\* TraceData without its id: the attributes the rules read
EvInfo  == [level |-> "INFO", target |-> << "t" >>, module_path |-> Some(<< "s", "a" >>),
            file |-> None, span_name |-> None]
EvNet   == [level |-> "INFO", target |-> << "t" >>, module_path |-> Some(<< "s", "a" >>),
            file |-> None, span_name |-> Some(<< "n", "r" >>)]
EvOther == [level |-> "DEBUG", target |-> << "t" >>, module_path |-> Some(<< "o" >>),
            file |-> None, span_name |-> None]
EventKinds == {EvInfo, EvNet, EvOther}

\* Matcher::info().module_patterns(["s*"])
IncSvc == Matcher("INFO", TRUE, << << "s", "*" >> >>, << >>, << >>, << >>)
\* Matcher::info().exclude().span_patterns(["n*"])
ExcNet == Matcher("INFO", FALSE, << >>, << >>, << << "n", "*" >> >>, << >>)

\* Matcher::info().span_patterns(["n*"])
IncNet == Matcher("INFO", TRUE, << >>, << >>, << << "n", "*" >> >>, << >>)

\* MatcherSet: the HashSet<Matcher> of one tab
SetInc  == {IncSvc}
SetNet  == {IncNet}
SetExc  == {ExcNet}
SetBoth == {IncSvc, ExcNet}


\* TracerConfig.tabs: the Vec<TracerTab> handed to Tracer::new_with_config
Configs ==
  { << [name |-> "A", matcher_set |-> SetInc], [name |-> "B", matcher_set |-> SetNet],
       [name |-> "C", matcher_set |-> SetExc] >>,
    << [name |-> "C", matcher_set |-> SetExc] >> }

\* DispatcherCommand, with the number of its reply channel
Commands ==
  [op : {"SetCallback", "SetSilencedCallback", "SetUncapturedCallback", "ClearStats"},
   name : {""}, set : {{}}]
  \cup [op : {"AddTab"}, name : {"A"}, set : {SetBoth}]
  \cup [op : {"UpdateTab"}, name : {"A"}, set : {SetExc}]
  \cup [op : {"RemoveTab"}, name : {"A"}, set : {{}}]

\* -------------------------------------------------------------- state
VARIABLES
  event_q,        \* the event channel: sent, not yet received
  command_q,      \* the command channel
  tracer_alive,   \* the Tracer handle (an event sender and the command sender) exists
  adapter_alive,  \* the TracingSubscriber (a clone of the event sender) exists
  emitting,       \* the events built by threads inside event(), not yet sent
  event_id,       \* TraceCounters.event_id
  cmd_seq,        \* reply channels created so far
  counters,       \* TraceCounters: captured, silenced, dropped
  tabs,           \* TracingDispatcher.tabs
  callback,       \* Option<EventCallback>: 0 is None, n the closure of command n
  silenced_callback,
  dropped_callback,
  pending_captured_events,
  pc,             \* the loop: "select", in handle_event after its for loop
                  \* ("decided"), ended ("done")
  event,          \* handle_event: its argument, as an Option
  captured_by,
  silenced_by,
  out,            \* callback invocations and replies, in the order they were made
  evaluated,      \* the events handle_event has finished, in that order
  sent,           \* the ids of the events sent on the event channel, in that order
  drained,        \* the queues the loop has taken an item from after they were closed
  args,           \* a call of matches or Matcher::matches: its arguments
  ret,            \* what the call returned, as an Option
  matchers,       \* MatcherSet.matchers of a set built by the MatcherSet methods
  hash_builder    \* the RandomState of that HashSet

chan_vars == << event_q, command_q, tracer_alive, adapter_alive, emitting, event_id, cmd_seq >>
disp_vars == << counters, tabs, callback, silenced_callback, dropped_callback,
                pending_captured_events >>
loop_vars == << pc, event, captured_by, silenced_by >>
hist_vars == << out, evaluated, sent, drained >>
lib_vars == << args, ret, matchers, hash_builder >>
vars == << chan_vars, disp_vars, loop_vars, hist_vars, lib_vars >>

\* HashMap::insert
Insert(map, name, set) ==
  [n \in DOMAIN map \cup {name} |-> IF n = name THEN set ELSE map[n]]

\* HashMap::remove
Remove(map, name) == [n \in DOMAIN map \ {name} |-> map[n]]

\* InitialTabs keeping the entry a name already has: the first listed rule set
RECURSIVE InitialTabsKeepFirst(_, _)
InitialTabsKeepFirst(config, map) ==
  IF config = << >> THEN map
  ELSE InitialTabsKeepFirst(Tail(config),
         IF Head(config).name \in DOMAIN map THEN map
         ELSE Insert(map, Head(config).name, Head(config).matcher_set))

\* Tracer::new_with_config: for tab in config.tabs { tabs.insert(tab.name, tab.matcher_set) }
RECURSIVE InitialTabs(_, _)
InitialTabs(config, map) ==
  IF config = << >> THEN map
  ELSE InitialTabs(Tail(config), Insert(map, Head(config).name, Head(config).matcher_set))

EmptyMap == [n \in {} |-> {}]

\* Tracer::new_with_config(config): TracingDispatcher::new with the tabs of the
\* configuration, TraceCounters::default, the two unbounded channels
new_with_config(config) ==
  /\ event_q = << >>
  /\ command_q = << >>
  /\ tracer_alive = TRUE
  /\ adapter_alive = TRUE
  /\ emitting = {}
  /\ event_id = 0
  /\ cmd_seq = 0
  /\ counters = [captured |-> 0, silenced |-> 0, dropped |-> 0]
  /\ tabs = InitialTabs(config, EmptyMap)
  /\ callback = 0
  /\ silenced_callback = 0
  /\ dropped_callback = 0
  /\ pending_captured_events = << >>
  /\ pc = "select"
  /\ event = None
  /\ captured_by = << >>
  /\ silenced_by = << >>
  /\ out = << >>
  /\ evaluated = << >>
  /\ sent = << >>
  /\ drained = {}

NewDispatcher == \E config \in Configs : new_with_config(config)

\* no call of the rule model under way, no MatcherSet built
NoArgs == [fn |-> "none"]
NoHasher == [m \in {} |-> 0]
Idle == args = NoArgs /\ ret = None /\ matchers = {} /\ hash_builder = NoHasher

Init == NewDispatcher /\ Idle

\* ------------------------------------------------------------ senders
\* what a caller of a Tracer method sees when the method returns Err: recorded
\* in out, beside the callback calls and the replies
Err(cmd) ==
  [t |-> "err", cb |-> 0, ev |-> 0, tabs |-> << >>, cmd |-> cmd,
   msg |-> "Failed to send command"]

\* mpsc_send putting the item at the front of the queue
mpsc_sendFront(q, x) == << x >> \o q

\* UnboundedSender::send on an open channel; UnboundedReceiver::recv on a
\* channel that holds an item: the item received and what stays queued
mpsc_send(q, x) == Append(q, x)
mpsc_recv(q) == [item |-> Head(q), rest |-> Tail(q)]

\* event_fetch_add with a load and a store in place of fetch_add: a thread that
\* loads while another is between its load and its store gets the same value
event_fetch_addLoadStore(data) ==
  /\ adapter_alive
  /\ Cardinality(emitting) < MaxThreads
  /\ event_id < MaxEvents
  /\ \E id \in {event_id} \cup {e.id : e \in emitting} :
       emitting' = emitting \cup {[id |-> id, data |-> data]}
  /\ event_id' = event_id + 1
  /\ UNCHANGED << event_q, command_q, tracer_alive, adapter_alive, cmd_seq >>
  /\ UNCHANGED << disp_vars, loop_vars, hist_vars >>
  /\ UNCHANGED lib_vars

\* TracingSubscriber::event, first half: id_counter.fetch_add(1), TraceData::new
event_fetch_add(data) ==
  /\ adapter_alive
  /\ Cardinality(emitting) < MaxThreads
  /\ event_id < MaxEvents
  /\ emitting' = emitting \cup {[id |-> event_id, data |-> data]}
  /\ event_id' = event_id + 1
  /\ UNCHANGED << event_q, command_q, tracer_alive, adapter_alive, cmd_seq >>
  /\ UNCHANGED << disp_vars, loop_vars, hist_vars >>
  /\ UNCHANGED lib_vars

\* TracingSubscriber::event, second half: let _ = self.sender.send(trace_event)
event_send(e) ==
  /\ e \in emitting
  /\ event_q' = IF pc = "done" THEN event_q ELSE mpsc_send(event_q, e)
  /\ sent' = IF pc = "done" THEN sent ELSE Append(sent, e.id)
  /\ emitting' = emitting \ {e}
  /\ UNCHANGED << command_q, tracer_alive, adapter_alive, event_id, cmd_seq >>
  /\ UNCHANGED << disp_vars, loop_vars, out, evaluated, drained >>
  /\ UNCHANGED lib_vars

\* send_command returning Ok(response_rx) also when the send has failed
send_commandOkAnyway(c) ==
  /\ tracer_alive
  /\ cmd_seq < MaxCmds
  /\ cmd_seq' = cmd_seq + 1
  /\ command_q' = IF pc = "done" THEN command_q
                  ELSE mpsc_send(command_q, [id |-> cmd_seq + 1, op |-> c.op,
                                             name |-> c.name, set |-> c.set])
  /\ UNCHANGED << event_q, tracer_alive, adapter_alive, emitting, event_id >>
  /\ UNCHANGED << disp_vars, loop_vars, hist_vars >>
  /\ UNCHANGED lib_vars

\* Tracer::set_callback, add_tab, ...: a oneshot channel, then command_tx.send;
\* the send fails when the receiver is gone, and `.context(..)?` returns the Err
send_command(c) ==
  /\ tracer_alive
  /\ cmd_seq < MaxCmds
  /\ cmd_seq' = cmd_seq + 1
  /\ command_q' = IF pc = "done" THEN command_q
                  ELSE mpsc_send(command_q, [id |-> cmd_seq + 1, op |-> c.op,
                                             name |-> c.name, set |-> c.set])
  /\ out' = IF pc = "done" THEN Append(out, Err(cmd_seq + 1)) ELSE out
  /\ UNCHANGED << event_q, tracer_alive, adapter_alive, emitting, event_id >>
  /\ UNCHANGED << disp_vars, loop_vars, evaluated, sent, drained >>
  /\ UNCHANGED lib_vars

\* the Tracer handle is dropped: its event_tx and command_tx go
drop_tracer ==
  /\ tracer_alive
  /\ tracer_alive' = FALSE
  /\ UNCHANGED << event_q, command_q, adapter_alive, emitting, event_id, cmd_seq >>
  /\ UNCHANGED << disp_vars, loop_vars, hist_vars >>
  /\ UNCHANGED lib_vars

\* the subscriber is dropped: its clone of event_tx goes (no event() call is running)
drop_adapter ==
  /\ adapter_alive
  /\ emitting = {}
  /\ adapter_alive' = FALSE
  /\ UNCHANGED << event_q, command_q, tracer_alive, emitting, event_id, cmd_seq >>
  /\ UNCHANGED << disp_vars, loop_vars, hist_vars >>
  /\ UNCHANGED lib_vars

\* an mpsc channel is closed when every sender of it has been dropped
event_closed == ~tracer_alive /\ ~adapter_alive
command_closed == ~tracer_alive

\* --------------------------------------------------------- handle_event
\* what the program does that others can see: a callback call, a reply sent
Invoke(t, cb, ev, names) ==
  [t |-> t, cb |-> cb, ev |-> ev, tabs |-> names, cmd |-> 0, msg |-> ""]
Sent(cmd, msg) ==
  [t |-> "reply", cb |-> 0, ev |-> 0, tabs |-> << >>, cmd |-> cmd, msg |-> msg]

\* the orders in which a HashSet or the keys of a HashMap can be iterated
RECURSIVE Orders(_)
Orders(S) ==
  IF S = {} THEN {<< >>}
  ELSE UNION {{<< x >> \o rest : rest \in Orders(S \ {x})} : x \in S}

\* TabVerdict with one loop over the rules: the first rule that matches decides
TabVerdictFirstMatch(ms, e) ==
  LET hits == {i \in DOMAIN ms : MatcherMatches(ms[i], e)}
  IN IF hits = {} THEN "none"
     ELSE LET first == CHOOSE i \in hits : \A j \in hits : i <= j
          IN IF ms[first].include THEN "captured" ELSE "silenced"

\* the body of the for loop over the tabs, for one tab: the exclude rules first
TabVerdict(ms, e) ==
  IF \E i \in DOMAIN ms : ~ms[i].include /\ MatcherMatches(ms[i], e) THEN "silenced"
  ELSE IF \E i \in DOMAIN ms : ms[i].include /\ MatcherMatches(ms[i], e) THEN "captured"
  ELSE "none"

\* a tab's verdict under each order in which iter_matchers() can yield its rules
Verdicts(set, e) == {TabVerdict(ms, e) : ms \in Orders(set)}

\* for_tabs pushing the name of a silencing tab onto captured_by as well
RECURSIVE for_tabsBothLists(_, _, _, _, _)
for_tabsBothLists(order, map, e, cap, sil) ==
  IF order = << >> THEN {<< cap, sil >>}
  ELSE LET name == Head(order) IN
    UNION {for_tabsBothLists(Tail(order), map, e,
                    IF v \in {"captured", "silenced"} THEN Append(cap, name) ELSE cap,
                    IF v = "silenced" THEN Append(sil, name) ELSE sil) :
           v \in Verdicts(map[name], e)}

\* for_tabs leaving the loop over the tabs at the first tab that silences
RECURSIVE for_tabsStopAtSilencer(_, _, _, _, _)
for_tabsStopAtSilencer(order, map, e, cap, sil) ==
  IF order = << >> THEN {<< cap, sil >>}
  ELSE LET name == Head(order) IN
    UNION {IF v = "silenced" THEN {<< cap, Append(sil, name) >>}
           ELSE for_tabsStopAtSilencer(Tail(order), map, e,
                    IF v = "captured" THEN Append(cap, name) ELSE cap, sil) :
           v \in Verdicts(map[name], e)}

\* for (name, filter) in &self.tabs, over the tabs in this order: the pairs
\* << captured_by, silenced_by >> the loop can end with
RECURSIVE for_tabs(_, _, _, _, _)
for_tabs(order, map, e, cap, sil) ==
  IF order = << >> THEN {<< cap, sil >>}
  ELSE LET name == Head(order) IN
    UNION {for_tabs(Tail(order), map, e,
                    IF v = "captured" THEN Append(cap, name) ELSE cap,
                    IF v = "silenced" THEN Append(sil, name) ELSE sil) :
           v \in Verdicts(map[name], e)}

\* run: Some(event) = self.event_rx.recv(); handle_event up to the end of its for loop
recv_event ==
  /\ pc = "select"
  /\ event_q /= << >>
  /\ event' = Some(mpsc_recv(event_q).item)
  /\ event_q' = mpsc_recv(event_q).rest
  /\ \E order \in Orders(DOMAIN tabs) :
       \E r \in for_tabs(order, tabs, mpsc_recv(event_q).item.data, << >>, << >>) :
         /\ captured_by' = r[1]
         /\ silenced_by' = r[2]
  /\ pc' = "decided"
  /\ drained' = IF event_closed THEN drained \cup {"event"} ELSE drained
  /\ UNCHANGED << command_q, tracer_alive, adapter_alive, emitting, event_id, cmd_seq >>
  /\ UNCHANGED << disp_vars, out, evaluated, sent >>
  /\ UNCHANGED lib_vars

\* Disposition with the silenced branch tested first
DispositionSilencedFirst(cap, sil) ==
  IF sil /= << >> THEN "silenced" ELSE IF cap /= << >> THEN "captured" ELSE "dropped"

\* handle_event: "Determine status and update counters"
Disposition(cap, sil) ==
  IF cap /= << >> THEN "captured" ELSE IF sil /= << >> THEN "silenced" ELSE "dropped"

\* dispose keeping a silenced event for later when no silence callback is set
disposeBuffersSilenced ==
  /\ pc = "decided"
  /\ LET ev == event[1]
         d == Disposition(captured_by, silenced_by)
     IN /\ counters' = [counters EXCEPT ![d] = @ + 1]
        /\ pending_captured_events' =
             IF d = "captured" /\ callback = 0
             THEN Append(pending_captured_events, [ev |-> ev.id, tabs |-> captured_by])
             ELSE IF d = "silenced" /\ silenced_callback = 0
             THEN Append(pending_captured_events, [ev |-> ev.id, tabs |-> silenced_by])
             ELSE pending_captured_events
        /\ out' =
             IF d = "captured" /\ callback /= 0
               THEN Append(out, Invoke("capture", callback, ev.id, captured_by))
             ELSE IF d = "silenced" /\ silenced_callback /= 0
               THEN Append(out, Invoke("silence", silenced_callback, ev.id, silenced_by))
             ELSE IF d = "dropped" /\ dropped_callback /= 0
               THEN Append(out, Invoke("drop", dropped_callback, ev.id, << >>))
             ELSE out
        /\ evaluated' = Append(evaluated, [id |-> ev.id, disp |-> d])
  /\ pc' = "select"
  /\ event' = None
  /\ captured_by' = << >>
  /\ silenced_by' = << >>
  /\ UNCHANGED << tabs, callback, silenced_callback, dropped_callback, chan_vars, sent,
                  drained >>
  /\ UNCHANGED lib_vars

dispose ==
  /\ pc = "decided"
  /\ LET ev == event[1]
         d == Disposition(captured_by, silenced_by)
     IN /\ counters' = [counters EXCEPT ![d] = @ + 1]
        /\ pending_captured_events' =
             IF d = "captured" /\ callback = 0
             THEN Append(pending_captured_events, [ev |-> ev.id, tabs |-> captured_by])
             ELSE pending_captured_events
        /\ out' =
             IF d = "captured" /\ callback /= 0
               THEN Append(out, Invoke("capture", callback, ev.id, captured_by))
             ELSE IF d = "silenced" /\ silenced_callback /= 0
               THEN Append(out, Invoke("silence", silenced_callback, ev.id, silenced_by))
             ELSE IF d = "dropped" /\ dropped_callback /= 0
               THEN Append(out, Invoke("drop", dropped_callback, ev.id, << >>))
             ELSE out
        /\ evaluated' = Append(evaluated, [id |-> ev.id, disp |-> d])
  /\ pc' = "select"
  /\ event' = None
  /\ captured_by' = << >>
  /\ silenced_by' = << >>
  /\ UNCHANGED << tabs, callback, silenced_callback, dropped_callback, chan_vars, sent,
                  drained >>
  /\ UNCHANGED lib_vars

\* ------------------------------------------------------- handle_command
\* ResultSender::success, ResultSender::error
success(cmd) == Sent(cmd.id, "ok")
error(cmd, msg) == Sent(cmd.id, msg)

\* Drain taking the buffered events from the back of the Vec
RECURSIVE DrainFromBack(_, _)
DrainFromBack(cb, pending) ==
  IF pending = << >> THEN << >>
  ELSE << Invoke("capture", cb, Last(pending).ev, Last(pending).tabs) >>
         \o DrainFromBack(cb, SubSeq(pending, 1, Len(pending) - 1))

\* Drain handing each buffered event over with those of its tabs that the
\* routing table still holds
RECURSIVE DrainCurrentTabs(_, _)
DrainCurrentTabs(cb, pending) ==
  IF pending = << >> THEN << >>
  ELSE << Invoke("capture", cb, Head(pending).ev,
                 SelectSeq(Head(pending).tabs, LAMBDA n : n \in DOMAIN tabs)) >>
         \o DrainCurrentTabs(cb, Tail(pending))

\* handle_set_callback: the callback calls of the drain, in order
RECURSIVE Drain(_, _)
Drain(cb, pending) ==
  IF pending = << >> THEN << >>
  ELSE << Invoke("capture", cb, Head(pending).ev, Head(pending).tabs) >>
         \o Drain(cb, Tail(pending))

\* handle_set_callback keeping the callback that is already set
handle_set_callbackKeepFirst(cmd) ==
  /\ callback' = IF callback = 0 THEN cmd.id ELSE callback
  /\ pending_captured_events' = << >>
  /\ out' = (out \o Drain(callback', pending_captured_events)) \o << success(cmd) >>
  /\ UNCHANGED << counters, tabs, silenced_callback, dropped_callback >>

\* handle_set_callback answering before it drains
handle_set_callbackReplyFirst(cmd) ==
  /\ callback' = cmd.id
  /\ pending_captured_events' = << >>
  /\ out' = (out \o << success(cmd) >>) \o Drain(cmd.id, pending_captured_events)
  /\ UNCHANGED << counters, tabs, silenced_callback, dropped_callback >>

\* handle_set_callback counting the events it drains as captured once more
handle_set_callbackCountsDrain(cmd) ==
  /\ callback' = cmd.id
  /\ pending_captured_events' = << >>
  /\ out' = (out \o Drain(cmd.id, pending_captured_events)) \o << success(cmd) >>
  /\ counters' = [counters EXCEPT !.captured = @ + Len(pending_captured_events)]
  /\ UNCHANGED << tabs, silenced_callback, dropped_callback >>

handle_set_callback(cmd) ==
  /\ callback' = cmd.id
  /\ pending_captured_events' = << >>
  /\ out' = (out \o Drain(cmd.id, pending_captured_events)) \o << success(cmd) >>
  /\ UNCHANGED << counters, tabs, silenced_callback, dropped_callback >>

handle_set_silenced_callback(cmd) ==
  /\ silenced_callback' = cmd.id
  /\ out' = Append(out, success(cmd))
  /\ UNCHANGED << counters, tabs, callback, dropped_callback, pending_captured_events >>

handle_set_dropped_callback(cmd) ==
  /\ dropped_callback' = cmd.id
  /\ out' = Append(out, success(cmd))
  /\ UNCHANGED << counters, tabs, callback, silenced_callback, pending_captured_events >>

\* handle_add_tab keeping the entry the map already has under the name
handle_add_tabKeepExisting(cmd) ==
  /\ tabs' = IF cmd.name \in DOMAIN tabs THEN tabs ELSE Insert(tabs, cmd.name, cmd.set)
  /\ out' = Append(out, success(cmd))
  /\ UNCHANGED << counters, callback, silenced_callback, dropped_callback,
                  pending_captured_events >>

handle_add_tab(cmd) ==
  /\ tabs' = Insert(tabs, cmd.name, cmd.set)
  /\ out' = Append(out, success(cmd))
  /\ UNCHANGED << counters, callback, silenced_callback, dropped_callback,
                  pending_captured_events >>

\* handle_update_tab adding the new rules to the ones the tab has
handle_update_tabMerge(cmd) ==
  /\ IF cmd.name \notin DOMAIN tabs
     THEN /\ out' = Append(out, error(cmd, "not found"))
          /\ tabs' = tabs
     ELSE /\ tabs' = Insert(tabs, cmd.name, tabs[cmd.name] \cup cmd.set)
          /\ out' = Append(out, success(cmd))
  /\ UNCHANGED << counters, callback, silenced_callback, dropped_callback,
                  pending_captured_events >>

\* handle_update_tab creating the tab when it is missing
handle_update_tabUpsert(cmd) ==
  /\ tabs' = Insert(tabs, cmd.name, cmd.set)
  /\ out' = Append(out, success(cmd))
  /\ UNCHANGED << counters, callback, silenced_callback, dropped_callback,
                  pending_captured_events >>

\* handle_update_tab returning on the missing tab without answering
handle_update_tabNoReply(cmd) ==
  /\ IF cmd.name \notin DOMAIN tabs
     THEN /\ out' = out
          /\ tabs' = tabs
     ELSE /\ tabs' = Insert(tabs, cmd.name, cmd.set)
          /\ out' = Append(out, success(cmd))
  /\ UNCHANGED << counters, callback, silenced_callback, dropped_callback,
                  pending_captured_events >>

handle_update_tab(cmd) ==
  /\ IF cmd.name \notin DOMAIN tabs
     THEN /\ out' = Append(out, error(cmd, "not found"))
          /\ tabs' = tabs
     ELSE /\ tabs' = Insert(tabs, cmd.name, cmd.set)
          /\ out' = Append(out, success(cmd))
  /\ UNCHANGED << counters, callback, silenced_callback, dropped_callback,
                  pending_captured_events >>

\* handle_remove_tab answering success and leaving the entry in the map
handle_remove_tabKeepsEntry(cmd) ==
  /\ IF cmd.name \notin DOMAIN tabs
     THEN out' = Append(out, error(cmd, "not found"))
     ELSE out' = Append(out, success(cmd))
  /\ UNCHANGED << counters, tabs, callback, silenced_callback, dropped_callback,
                  pending_captured_events >>

handle_remove_tab(cmd) ==
  /\ IF cmd.name \notin DOMAIN tabs
     THEN /\ out' = Append(out, error(cmd, "not found"))
          /\ tabs' = tabs
     ELSE /\ tabs' = Remove(tabs, cmd.name)
          /\ out' = Append(out, success(cmd))
  /\ UNCHANGED << counters, callback, silenced_callback, dropped_callback,
                  pending_captured_events >>

\* clear leaving the dropped counter as it is
clearKeepsDropped(c) == [c EXCEPT !.captured = 0, !.silenced = 0]

\* TraceCounters::clear
clear(c) == [captured |-> 0, silenced |-> 0, dropped |-> 0]

handle_clear_stats(cmd) ==
  /\ counters' = clear(counters)
  /\ out' = Append(out, success(cmd))
  /\ UNCHANGED << tabs, callback, silenced_callback, dropped_callback,
                  pending_captured_events >>

handle_command(cmd) ==
  CASE cmd.op = "SetCallback"           -> handle_set_callback(cmd)
    [] cmd.op = "SetSilencedCallback"   -> handle_set_silenced_callback(cmd)
    [] cmd.op = "SetUncapturedCallback" -> handle_set_dropped_callback(cmd)
    [] cmd.op = "AddTab"                -> handle_add_tab(cmd)
    [] cmd.op = "UpdateTab"             -> handle_update_tab(cmd)
    [] cmd.op = "RemoveTab"             -> handle_remove_tab(cmd)
    [] cmd.op = "ClearStats"            -> handle_clear_stats(cmd)

\* ------------------------------------------------------------------ run
\* recv_command taken whatever handle_event is doing
recv_commandAnytime ==
  /\ pc /= "done"
  /\ command_q /= << >>
  /\ command_q' = mpsc_recv(command_q).rest
  /\ handle_command(mpsc_recv(command_q).item)
  /\ drained' = IF command_closed THEN drained \cup {"command"} ELSE drained
  /\ UNCHANGED << event_q, tracer_alive, adapter_alive, emitting, event_id, cmd_seq >>
  /\ UNCHANGED << loop_vars, evaluated, sent >>
  /\ UNCHANGED lib_vars

\* recv_command leaving the loop when the handler has answered with an error
recv_commandFatal ==
  /\ pc = "select"
  /\ command_q /= << >>
  /\ command_q' = mpsc_recv(command_q).rest
  /\ handle_command(mpsc_recv(command_q).item)
  /\ drained' = IF command_closed THEN drained \cup {"command"} ELSE drained
  /\ pc' = IF Last(out').msg = "ok" THEN pc ELSE "done"
  /\ UNCHANGED << event_q, tracer_alive, adapter_alive, emitting, event_id, cmd_seq >>
  /\ UNCHANGED << event, captured_by, silenced_by, evaluated, sent >>
  /\ UNCHANGED lib_vars

\* recv_command under a select! that polls the event branch first
recv_commandBiased ==
  /\ pc = "select"
  /\ event_q = << >>
  /\ command_q /= << >>
  /\ command_q' = mpsc_recv(command_q).rest
  /\ handle_command(mpsc_recv(command_q).item)
  /\ drained' = IF command_closed THEN drained \cup {"command"} ELSE drained
  /\ UNCHANGED << event_q, tracer_alive, adapter_alive, emitting, event_id, cmd_seq >>
  /\ UNCHANGED << loop_vars, evaluated, sent >>
  /\ UNCHANGED lib_vars

\* run: Some(cmd) = self.command_rx.recv() => self.handle_command(cmd).await
recv_command ==
  /\ pc = "select"
  /\ command_q /= << >>
  /\ command_q' = mpsc_recv(command_q).rest
  /\ handle_command(mpsc_recv(command_q).item)
  /\ drained' = IF command_closed THEN drained \cup {"command"} ELSE drained
  /\ UNCHANGED << event_q, tracer_alive, adapter_alive, emitting, event_id, cmd_seq >>
  /\ UNCHANGED << loop_vars, evaluated, sent >>
  /\ UNCHANGED lib_vars

\* break when both channels are closed, whatever they still hold
breakUndrained ==
  /\ pc = "select"
  /\ event_closed /\ command_closed
  /\ pc' = "done"
  /\ UNCHANGED << event, captured_by, silenced_by >>
  /\ UNCHANGED << chan_vars, disp_vars, hist_vars >>
  /\ UNCHANGED lib_vars

\* break as soon as one recv() returns None
breakOnEither ==
  /\ pc = "select"
  /\ \/ event_closed /\ event_q = << >>
     \/ command_closed /\ command_q = << >>
  /\ pc' = "done"
  /\ UNCHANGED << event, captured_by, silenced_by >>
  /\ UNCHANGED << chan_vars, disp_vars, hist_vars >>
  /\ UNCHANGED lib_vars

\* run: else => break (both recv() returned None: closed and empty)
break ==
  /\ pc = "select"
  /\ event_closed /\ event_q = << >>
  /\ command_closed /\ command_q = << >>
  /\ pc' = "done"
  /\ UNCHANGED << event, captured_by, silenced_by >>
  /\ UNCHANGED << chan_vars, disp_vars, hist_vars >>
  /\ UNCHANGED lib_vars

run == recv_event \/ dispose \/ recv_command \/ break

Next ==
  \/ \E data \in EventKinds : event_fetch_add(data)
  \/ \E e \in emitting : event_send(e)
  \/ \E c \in Commands : send_command(c)
  \/ drop_tracer
  \/ drop_adapter
  \/ run

Spec == Init /\ [][Next]_vars

\* ------------------------------------------------- runs without an end
\* A run in which events or commands keep coming has no bound on the ids, the
\* counters and the recorded history.  These two steps forget the past so that
\* such a run stays within the bounds: the events still under way are numbered
\* again from 0, and what was recorded about finished events, or answered
\* commands, is dropped.  They take nothing from a queue and add nothing to it.
InFlight == Len(event_q) + Cardinality(emitting) + Len(event)
Renumbered(e) == [e EXCEPT !.id = 0]

forget_events ==
  /\ event_id = MaxEvents
  /\ InFlight <= 1
  /\ pending_captured_events = << >>
  /\ event_id' = InFlight
  /\ event_q' = [i \in DOMAIN event_q |-> Renumbered(event_q[i])]
  /\ emitting' = {Renumbered(e) : e \in emitting}
  /\ event' = [i \in DOMAIN event |-> Renumbered(event[i])]
  /\ sent' = [i \in DOMAIN event_q |-> 0]
  /\ evaluated' = << >>
  /\ out' = SelectSeq(out, LAMBDA x : x.t = "reply")
  /\ counters' = clear(counters)
  /\ UNCHANGED << command_q, tracer_alive, adapter_alive, cmd_seq, drained >>
  /\ UNCHANGED << tabs, callback, silenced_callback, dropped_callback,
                  pending_captured_events, pc, captured_by, silenced_by >>
  /\ UNCHANGED lib_vars

forget_commands ==
  /\ cmd_seq = MaxCmds
  /\ command_q = << >>
  /\ cmd_seq' = 0
  /\ out' = SelectSeq(out, LAMBDA x : x.t /= "reply")
  /\ UNCHANGED << event_q, command_q, tracer_alive, adapter_alive, emitting, event_id >>
  /\ UNCHANGED << disp_vars, loop_vars, evaluated, sent, drained >>
  /\ UNCHANGED lib_vars

\* the events and commands of the runs without an end
LiveCommands == {c \in Commands : c.op = "ClearStats"}

LiveNext ==
  \/ event_fetch_add(EvNet)
  \/ \E e \in emitting : event_send(e)
  \/ \E c \in LiveCommands : send_command(c)
  \/ drop_tracer
  \/ drop_adapter
  \/ run
  \/ forget_events
  \/ forget_commands

\* The loop goes on: handle_event returns (WF on dispose), and the select! of
\* run, which polls its ready branches starting from a branch picked at random
\* on every pass, does not pass over a branch that is ready again and again for
\* ever (SF on recv_event and recv_command).
LiveSpec ==
  /\ Init /\ [][LiveNext]_vars
  /\ WF_vars(dispose)
  /\ SF_vars(recv_event)
  /\ SF_vars(recv_command)

\* ------------------------------------------------- the rule model alone
\* Matcher::matches and matches are functions of their arguments: a call is
\* made with arguments picked at the start, beside a dispatcher that was
\* constructed and takes no step.
Unused == NewDispatcher /\ DOMAIN tabs = {"C"}

\* the pattern lists a builder call can give to one attribute of a rule: none,
\* the wildcard, two patterns, a pattern that does not compile
PatternLists ==
  { << >>, << << "*" >> >>, << << "o" >>, << "s", "*" >> >>, << << "[" >> >> }

\* module pattern lists with the wildcard beside another pattern, and with a
\* pattern that matches every string and is not "*"
ModuleLists ==
  PatternLists \cup { << << "o" >>, << "*" >> >>, << << "*", "*" >> >> }

Rules ==
  {Matcher(level, include, mods, files, spans, targets) :
     level \in Levels, include \in BOOLEAN, mods \in ModuleLists,
     files \in PatternLists, spans \in PatternLists, targets \in PatternLists}

\* TraceData as the rules read it: module path, file and span name are Options
Events ==
  [level : Levels, target : {<< "t" >>, << "s", "a" >>},
   module_path : {None, Some(<< "s", "a" >>), Some(<< "x" >>)},
   file : {None, Some(<< "s", "a" >>)},
   span_name : {None, Some(<< "s", "a" >>)}]

\* the strings of at most n characters out of chars
Strings(chars, n) == UNION {[1..k -> chars] : k \in 0..n}

\* patterns of letters, a digit, the underscore, "*" and characters that the
\* regex syntax gives a meaning to; values with a dot, a bracket and a line
\* feed in them
PatternChars == {"a", "b", "B", "1", "_", "*", ".", "?", "+", "[", "("}
ValueChars == {"a", "b", "B", "1", "_", ".", "[", "\n"}
Patterns == Strings(PatternChars, MaxPattern)
Values == Strings(ValueChars, MaxValue)

MatcherInit ==
  /\ Unused
  /\ args \in [fn : {"Matcher::matches"}, self : Rules, event : Events]
               \cup [fn : {"matches"}, pattern : Patterns, value : Values]
  /\ ret = None
  /\ matchers = {}
  /\ hash_builder = NoHasher

\* self.matches(event)
call_Matcher_matches ==
  /\ args.fn = "Matcher::matches"
  /\ ret = None
  /\ ret' = Some(MatcherMatches(args.self, args.event))
  /\ UNCHANGED << chan_vars, disp_vars, loop_vars, hist_vars, args, matchers, hash_builder >>

\* matches(pattern, value)
call_matches ==
  /\ args.fn = "matches"
  /\ ret = None
  /\ ret' = Some(matches(args.pattern, args.value))
  /\ UNCHANGED << chan_vars, disp_vars, loop_vars, hist_vars, args, matchers, hash_builder >>

MatcherNext == call_Matcher_matches \/ call_matches

MatcherSpec == MatcherInit /\ [][MatcherNext]_vars

\* ---------------------------------------------------- MatcherSet alone
\* PartialEq for Matcher: the level and the four pattern lists, not include
Eq(a, b) ==
  /\ a.level = b.level
  /\ a.module_patterns = b.module_patterns
  /\ a.file_patterns = b.file_patterns
  /\ a.span_patterns = b.span_patterns
  /\ a.target_patterns = b.target_patterns

\* the rules put into a set: three attribute combinations, in both polarities
SetRules ==
  {Matcher(level, include, mods, << >>, << >>, << >>) :
     level \in {"INFO"}, include \in BOOLEAN, mods \in {<< << "s", "*" >> >>, << << "o" >> >>}}
  \cup {Matcher("WARN", include, << << "s", "*" >> >>, << >>, << >>, << >>) :
          include \in BOOLEAN}

\* Hash for Matcher feeds include, the level and the four lists to the hasher:
\* every field of the rule.  A RandomState is a function from what was fed to a
\* hash, of which a lookup in a table of this size uses the tag alone.  Two
\* rules that differ in any field get equal or different tags, by the keys of
\* the RandomState.
Tags == {0, 1}
RandomStates == [SetRules -> Tags]
Hash(hasher, m) == hasher[m]

\* the entry of the table a lookup of m ends at, as an Option: an entry with
\* the tag of m that is Eq to m
Find(hasher, set, m) ==
  {Some(e) : e \in {x \in set : Hash(hasher, x) = Hash(hasher, m) /\ Eq(x, m)}}
  \cup (IF \E x \in set : Hash(hasher, x) = Hash(hasher, m) /\ Eq(x, m)
        THEN {} ELSE {None})

\* HashSet::insert, replace, remove: the sets the call can leave
HashSet_insert(hasher, set, m) ==
  {IF found = None THEN set \cup {m} ELSE set : found \in Find(hasher, set, m)}
HashSet_replace(hasher, set, m) ==
  {IF found = None THEN set \cup {m} ELSE (set \ {found[1]}) \cup {m} :
     found \in Find(hasher, set, m)}
HashSet_remove(hasher, set, m) ==
  {IF found = None THEN set ELSE set \ {found[1]} : found \in Find(hasher, set, m)}

\* for matcher in matchers { filter.matchers.insert(matcher) }
RECURSIVE insert_all(_, _, _)
insert_all(hasher, set, vec) ==
  IF vec = << >> THEN {set}
  ELSE UNION {insert_all(hasher, s, Tail(vec)) : s \in HashSet_insert(hasher, set, Head(vec))}

\* rules handed to from_matchers in one call
MaxMatchers == 2

\* MatcherSet::empty: a new HashSet, with the RandomState it will keep
SetInit ==
  /\ Unused
  /\ args = NoArgs
  /\ ret = None
  /\ matchers = {}
  /\ hash_builder \in RandomStates

\* MatcherSet::from_matchers (from_matcher is the call with one rule): the
\* set starts with it, let mut filter = Self::empty() being the initial state
from_matchers ==
  \E vec \in Strings(SetRules, MaxMatchers) :
    /\ args = NoArgs
    /\ args' = [fn |-> "from_matchers", matchers |-> vec]
    /\ matchers' \in insert_all(hash_builder, matchers, vec)
    /\ ret' = None
    /\ UNCHANGED << chan_vars, disp_vars, loop_vars, hist_vars, hash_builder >>

with_matcher ==
  \E filter \in SetRules :
    /\ args' = [fn |-> "with_matcher", filter |-> filter]
    /\ matchers' \in HashSet_replace(hash_builder, matchers, filter)
    /\ ret' = None
    /\ UNCHANGED << chan_vars, disp_vars, loop_vars, hist_vars, hash_builder >>

add_matcher ==
  \E filter \in SetRules :
    /\ args' = [fn |-> "add_matcher", filter |-> filter]
    /\ matchers' \in HashSet_replace(hash_builder, matchers, filter)
    /\ ret' = None
    /\ UNCHANGED << chan_vars, disp_vars, loop_vars, hist_vars, hash_builder >>

remove_matcher ==
  \E filter \in SetRules :
    /\ args' = [fn |-> "remove_matcher", filter |-> filter]
    /\ matchers' \in HashSet_remove(hash_builder, matchers, filter)
    /\ ret' = Some(matchers' /= matchers)
    /\ UNCHANGED << chan_vars, disp_vars, loop_vars, hist_vars, hash_builder >>

SetNext == from_matchers \/ with_matcher \/ add_matcher \/ remove_matcher

SetSpec == SetInit /\ [][SetNext]_vars

\* ------------------------------------------------ spans beside the events
\* TracingSubscriber::new_span: id_counter.fetch_add(1) on the counter the
\* events take their ids from.  (Id::from_u64 panics in the calling thread on
\* the value 0; the counter has moved on by then.)
new_span ==
  /\ adapter_alive
  /\ event_id < MaxEvents
  /\ event_id' = event_id + 1
  /\ UNCHANGED << event_q, command_q, tracer_alive, adapter_alive, emitting, cmd_seq >>
  /\ UNCHANGED << disp_vars, loop_vars, hist_vars >>
  /\ UNCHANGED lib_vars

SpanNext == Next \/ new_span

SpanSpec == Init /\ [][SpanNext]_vars

\* ------------------------------------------- the loop ended from outside
\* Tracer::new_with_config spawns the loop as a task, tokio::spawn(dispatcher
\* .run()): the task is dropped at its select! when the runtime shuts down.
\* With it go the two receivers and what the queues hold; the senders stay.
shutdown ==
  /\ pc = "select"
  /\ pc' = "done"
  /\ event_q' = << >>
  /\ command_q' = << >>
  /\ UNCHANGED << tracer_alive, adapter_alive, emitting, event_id, cmd_seq >>
  /\ UNCHANGED << event, captured_by, silenced_by >>
  /\ UNCHANGED << disp_vars, hist_vars, lib_vars >>

ShutdownNext == Next \/ shutdown

ShutdownSpec == Init /\ [][ShutdownNext]_vars

\* --------------------------------------------------- the configuration
\* TracerTab values, and the configurations of at most MaxTabs of them: a name
\* can be listed twice, with the same or with another rule set
MaxTabs == 2
TracerTabs ==
  { [name |-> "A", matcher_set |-> SetInc], [name |-> "A", matcher_set |-> SetExc],
    [name |-> "C", matcher_set |-> SetExc] }
AnyConfigs == Strings(TracerTabs, MaxTabs)

\* Tracer::new_with_config(config), the configuration kept in args
ConfigInit ==
  /\ \E config \in AnyConfigs :
       /\ new_with_config(config)
       /\ args = [fn |-> "new_with_config", config |-> config]
  /\ ret = None
  /\ matchers = {}
  /\ hash_builder = NoHasher

\* the events and commands of the runs from these configurations
ConfigCommands == {c \in Commands : c.op \in {"AddTab", "RemoveTab"}}

ConfigNext ==
  \/ event_fetch_add(EvNet)
  \/ \E e \in emitting : event_send(e)
  \/ \E c \in ConfigCommands : send_command(c)
  \/ drop_tracer
  \/ drop_adapter
  \/ run

ConfigSpec == ConfigInit /\ [][ConfigNext]_vars

\* ------------------------------------------------ a callback that takes time
\* handle_event calls the callback of the event's disposition as a plain
\* function call, cb(Arc::clone(&event), &tab_refs): here the call and its
\* return are two steps, and between them pc is "callback".  What the callback
\* does meanwhile it does as any other thread: it can log events and call the
\* command methods of a Tracer it holds.
\* the kind of call made for a disposition
KindOf(d) ==
  CASE d = "captured" -> "capture"
    [] d = "silenced" -> "silence"
    [] d = "dropped"  -> "drop"

\* the callback slot a kind of call is made from
Slot(kind) ==
  CASE kind = "capture" -> callback
    [] kind = "silence" -> silenced_callback
    [] kind = "drop"    -> dropped_callback

CallsBack == pc = "decided" /\ Slot(KindOf(Disposition(captured_by, silenced_by))) /= 0

\* handle_event from the counter update to the entry into the callback
callback_called ==
  /\ CallsBack
  /\ LET ev == event[1]
         d == Disposition(captured_by, silenced_by)
     IN /\ counters' = [counters EXCEPT ![d] = @ + 1]
        /\ out' = Append(out, Invoke(KindOf(d), Slot(KindOf(d)), ev.id,
                                     CASE d = "captured" -> captured_by
                                       [] d = "silenced" -> silenced_by
                                       [] d = "dropped" -> << >>))
  /\ pc' = "callback"
  /\ UNCHANGED << tabs, callback, silenced_callback, dropped_callback,
                  pending_captured_events, chan_vars, event, captured_by, silenced_by,
                  evaluated, sent, drained, lib_vars >>

\* the callback returns, and handle_event with it
callback_returned ==
  /\ pc = "callback"
  /\ evaluated' = Append(evaluated, [id |-> event[1].id,
                                     disp |-> Disposition(captured_by, silenced_by)])
  /\ pc' = "select"
  /\ event' = None
  /\ captured_by' = << >>
  /\ silenced_by' = << >>
  /\ UNCHANGED << chan_vars, disp_vars, out, sent, drained, lib_vars >>

\* handle_event on the paths that call no callback
no_callback == ~CallsBack /\ dispose

InlineNext ==
  \/ \E data \in EventKinds : event_fetch_add(data)
  \/ \E e \in emitting : event_send(e)
  \/ \E c \in Commands : send_command(c)
  \/ drop_tracer
  \/ drop_adapter
  \/ recv_event
  \/ callback_called
  \/ callback_returned
  \/ no_callback
  \/ recv_command
  \/ break

InlineSpec == Init /\ [][InlineNext]_vars

\* ------------------------------------------------ the counters, store by store
\* TraceCounters::clear is three stores, one for each counter, and each getter
\* of Tracer is one load of one counter: here every store and every load is a
\* step of its own.  args holds what the clear being handled started from, ret
\* what a reader that calls each getter once has got back so far.
CounterNames == {"captured", "silenced", "dropped"}

ClearStatsCommands == {c \in Commands : c.op = "ClearStats"}

Clearing == pc \in {"clear_captured", "clear_silenced", "clear_dropped"}

\* run's command arm taking a ClearStats command, up to the call of clear
recv_clear_stats ==
  /\ pc = "select"
  /\ command_q /= << >>
  /\ mpsc_recv(command_q).item.op = "ClearStats"
  /\ command_q' = mpsc_recv(command_q).rest
  /\ pc' = "clear_captured"
  /\ args' = [fn |-> "clear", cmd |-> mpsc_recv(command_q).item, pre |-> counters]
  /\ drained' = IF command_closed THEN drained \cup {"command"} ELSE drained
  /\ UNCHANGED << event_q, tracer_alive, adapter_alive, emitting, event_id, cmd_seq >>
  /\ UNCHANGED << disp_vars, event, captured_by, silenced_by, out, evaluated, sent >>
  /\ UNCHANGED << ret, matchers, hash_builder >>

\* a store that clears the three counters at once
storeAll(name, next) ==
  /\ pc = "clear_" \o name
  /\ counters' = clear(counters)
  /\ pc' = next
  /\ UNCHANGED << tabs, callback, silenced_callback, dropped_callback,
                  pending_captured_events >>
  /\ UNCHANGED << chan_vars, event, captured_by, silenced_by, evaluated, sent, drained,
                  lib_vars >>

\* self.<name>.store(0, Ordering::SeqCst)
store(name, next) ==
  /\ pc = "clear_" \o name
  /\ counters' = [counters EXCEPT ![name] = 0]
  /\ pc' = next
  /\ UNCHANGED << tabs, callback, silenced_callback, dropped_callback,
                  pending_captured_events >>
  /\ UNCHANGED << chan_vars, event, captured_by, silenced_by, evaluated, sent, drained,
                  lib_vars >>

store_captured == store("captured", "clear_silenced") /\ out' = out

store_silenced == store("silenced", "clear_dropped") /\ out' = out

\* the last store, and handle_clear_stats answers success
store_dropped == store("dropped", "select") /\ out' = Append(out, success(args.cmd))

\* Tracer::get_captured_count, get_silenced_count, get_dropped_count: the value
\* loaded, and the command whose clear was under way at the load (0: none)
get_count(name) ==
  /\ tracer_alive
  /\ name \notin DOMAIN ret
  /\ ret' = [n \in DOMAIN ret \cup {name} |->
               IF n = name
               THEN [v |-> counters[name], during |-> IF Clearing THEN args.cmd.id ELSE 0]
               ELSE ret[n]]
  /\ UNCHANGED << chan_vars, disp_vars, loop_vars, hist_vars, args, matchers, hash_builder >>

StatsNext ==
  \/ \E data \in EventKinds : event_fetch_add(data)
  \/ \E e \in emitting : event_send(e)
  \/ \E c \in ClearStatsCommands : send_command(c)
  \/ drop_tracer
  \/ drop_adapter
  \/ recv_event
  \/ dispose
  \/ recv_clear_stats
  \/ store_captured
  \/ store_silenced
  \/ store_dropped
  \/ \E name \in CounterNames : get_count(name)
  \/ break

StatsSpec == Init /\ [][StatsNext]_vars

\* =============================================================== claims
\* tab t has an exclude rule that matches e; t has an include rule that matches e
Excludes(t, e) == \E m \in tabs[t] : ~m.include /\ MatcherMatches(m, e)
HasInclude(t, e) == \E m \in tabs[t] : m.include /\ MatcherMatches(m, e)
\* tab t includes e: an include rule of t matches and t does not exclude e
Includes(t, e) == HasInclude(t, e) /\ ~Excludes(t, e)
Including(e) == {t \in DOMAIN tabs : Includes(t, e)}
Excluding(e) == {t \in DOMAIN tabs : Excludes(t, e)}

\* the step that ends handle_event
EndsHandleEvent == pc = "decided" /\ pc' = "select"

\* the disposition the priority rule asks for
Expected(e) ==
  IF Including(e) /= {} THEN "captured"
  ELSE IF Excluding(e) /= {} THEN "silenced" ELSE "dropped"

\* C1: every event handle_event processes gets one disposition, CAPTURED when a
\* tab includes it, else SILENCED when a tab excludes it, else DROPPED, and the
\* counter of that disposition, and no other, grows by exactly 1.
C1_OneDisposition ==
  [][EndsHandleEvent =>
       LET d == Expected(event[1].data)
       IN /\ Last(evaluated').disp = d
          /\ Len(evaluated') = Len(evaluated) + 1
          /\ counters' = [counters EXCEPT ![d] = @ + 1]]_vars

\* C1 witness: a captured and a silenced event have been processed and counted
C1_Witness ==
  /\ pc = "select"
  /\ {evaluated[i].disp : i \in DOMAIN evaluated} = {"captured", "silenced"}
  /\ counters = [captured |-> 1, silenced |-> 1, dropped |-> 0]

\* C2: a tab that has an exclude rule matching the event and an include rule
\* matching it too is in silenced_by and not in captured_by when the for loop
\* of handle_event ends, in whatever order its rules were iterated.
C2_ExclusionWins ==
  pc = "decided" =>
    \A t \in DOMAIN tabs :
      Excludes(t, event[1].data) /\ HasInclude(t, event[1].data)
        => t \in Range(silenced_by) /\ t \notin Range(captured_by)

\* C2 witness: handle_event has evaluated a tab whose include rule and exclude
\* rule both match the event
C2_Witness ==
  /\ pc = "decided"
  /\ \E t \in DOMAIN tabs :
       /\ Excludes(t, event[1].data) /\ HasInclude(t, event[1].data)
       /\ t \in Range(silenced_by)

\* C3: an event that some tabs include and another tab excludes is CAPTURED:
\* captured grows by 1, silenced and dropped stay, the capture callback (or, with
\* none set, the pending buffer) gets the event with exactly the including tabs,
\* each once, and the silence callback is not called.
C3_CapturedDespiteExclusion ==
  [][EndsHandleEvent /\ Including(event[1].data) /= {} /\ Excluding(event[1].data) /= {} =>
       LET inc == Including(event[1].data)
           exact(names) == Range(names) = inc /\ Len(names) = Cardinality(inc)
       IN /\ counters' = [counters EXCEPT !.captured = @ + 1]
          /\ IF callback /= 0
             THEN /\ Len(out') = Len(out) + 1
                  /\ SubSeq(out', 1, Len(out)) = out
                  /\ Last(out').t = "capture"
                  /\ Last(out').cb = callback
                  /\ Last(out').ev = event[1].id
                  /\ exact(Last(out').tabs)
                  /\ pending_captured_events' = pending_captured_events
             ELSE /\ out' = out
                  /\ Len(pending_captured_events') = Len(pending_captured_events) + 1
                  /\ Last(pending_captured_events').ev = event[1].id
                  /\ exact(Last(pending_captured_events').tabs)]_vars

\* C3 witness: with a silence callback set, the capture callback was called with
\* the tabs A and B for an event that tab C excludes, and nothing else was called
C3_Witness ==
  /\ silenced_callback /= 0
  /\ callback /= 0
  /\ "C" \in DOMAIN tabs
  /\ counters = [captured |-> 1, silenced |-> 0, dropped |-> 0]
  /\ Len(evaluated) = 1
  /\ \E i \in DOMAIN out : out[i].t = "capture" /\ Range(out[i].tabs) = {"A", "B"}
  /\ \A i \in DOMAIN out : out[i].t /= "silence"

\* the event ids of a sequence of records with an ev field, or an id field
Evs(seq) == [i \in DOMAIN seq |-> seq[i].ev]
Ids(seq) == [i \in DOMAIN seq |-> seq[i].id]
Calls(kind) == SelectSeq(out, LAMBDA x : x.t = kind)
Replies == SelectSeq(out, LAMBDA x : x.t = "reply")
NoRepeat(seq) == \A i, j \in DOMAIN seq : seq[i] = seq[j] => i = j

\* the ids of the events handle_event has found captured, in the order it did
CapturedIds == Ids(SelectSeq(evaluated, LAMBDA x : x.disp = "captured"))

\* C4: the captured events are, in the order they were processed, the events the
\* capture callback was called with followed by the pending buffer; with no
\* callback set nothing has been delivered and all are buffered, and once one is
\* set the buffer is empty and each captured event was delivered exactly once.
C4_BufferThenDeliverInOrder ==
  /\ Evs(Calls("capture")) \o Evs(pending_captured_events) = CapturedIds
  /\ NoRepeat(CapturedIds)
  /\ callback = 0 => Calls("capture") = << >>
  /\ callback /= 0 => pending_captured_events = << >>

\* C4 witness: two events were buffered and then delivered, in their order, by
\* the set-callback command that was answered next
C4_Witness ==
  /\ Len(out) = 3
  /\ out[1].t = "capture" /\ out[2].t = "capture" /\ out[3].t = "reply"
  /\ out[1].cb = out[3].cmd /\ out[2].cb = out[3].cmd
  /\ << out[1].ev, out[2].ev >> = CapturedIds

\* the step in which the dispatcher handles the command at the head of the queue
Handles(op) ==
  /\ pc = "select" /\ command_q /= << >> /\ Head(command_q).op = op
  /\ command_q' = Tail(command_q)

\* what a step appends to out
Added == SubSeq(out', Len(out) + 1, Len(out'))

\* C5: handling a set-capture-callback command calls the new callback with every
\* buffered event, in order, and only then sends the success reply, as the last
\* thing it does.
C5_ReplyAfterDrain ==
  [][Handles("SetCallback") =>
       LET n == Len(pending_captured_events)
           cmd == Head(command_q)
       IN /\ SubSeq(out', 1, Len(out)) = out
          /\ Len(Added) = n + 1
          /\ \A i \in 1 .. n :
               /\ Added[i].t = "capture"
               /\ Added[i].cb = cmd.id
               /\ Added[i].ev = pending_captured_events[i].ev
          /\ Added[n + 1] = Sent(cmd.id, "ok")]_vars

\* C5 witness: a reply to a set-capture-callback command that directly follows
\* the delivery of a buffered event to the callback it installed
C5_Witness ==
  \E i \in DOMAIN out :
    /\ i + 1 \in DOMAIN out
    /\ out[i].t = "capture" /\ out[i + 1].t = "reply" /\ out[i + 1].cmd = out[i].cb

RepliesTo(c) == {i \in DOMAIN out : out[i].t = "reply" /\ out[i].cmd = c}
Queued(c) == \E j \in DOMAIN command_q : command_q[j].id = c

\* C6: between two steps of the loop every command taken from the queue has
\* exactly one reply, success or an error, and a command still queued has none.
C6_AnsweredExactlyOnce ==
  /\ \A c \in 1 .. cmd_seq :
       IF Queued(c) THEN RepliesTo(c) = {}
       ELSE /\ Cardinality(RepliesTo(c)) = 1
            /\ \A i \in RepliesTo(c) : out[i].msg \in {"ok", "not found"}
  /\ \A i \in DOMAIN out : out[i].t = "reply" => out[i].cmd \in 1 .. cmd_seq

\* C6 witness: both commands of a run were answered, one with an error
C6_Witness ==
  /\ cmd_seq = 2 /\ command_q = << >>
  /\ \E i, j \in DOMAIN out :
       /\ out[i].t = "reply" /\ out[i].msg = "not found"
       /\ out[j].t = "reply" /\ out[j].msg = "ok"

IsPrefix(a, b) == Len(a) <= Len(b) /\ SubSeq(b, 1, Len(a)) = a

\* C7: while handle_event is between its for loop and its callback, no step
\* changes the routing table or a callback slot or takes anything from a queue,
\* and the only step that calls a callback or replies is the end of handle_event.
C7_NoInterleaving ==
  [][pc = "decided" =>
       /\ tabs' = tabs
       /\ callback' = callback
       /\ silenced_callback' = silenced_callback
       /\ dropped_callback' = dropped_callback
       /\ IsPrefix(command_q, command_q')
       /\ IsPrefix(event_q, event_q')
       /\ out' /= out => pc' = "select"]_vars

\* C7 witness: a command and a further event are ready while handle_event is
\* working on an event
C7_Witness == pc = "decided" /\ command_q /= << >> /\ event_q /= << >>

\* the place of an event id in the order of sending
Place(id) == CHOOSE i \in DOMAIN sent : sent[i] = id
InSentOrder(ids) == \A i, j \in DOMAIN ids : i < j => Place(ids[i]) < Place(ids[j])
Invocations == SelectSeq(out, LAMBDA x : x.t /= "reply")
Current == IF event = None THEN << >> ELSE << event[1].id >>

\* C8 as claimed: events are evaluated in the order they were enqueued and the
\* callbacks are called with them in that order; commands are answered in the
\* order they were enqueued.
C8_Original ==
  /\ InSentOrder(Ids(evaluated))
  /\ InSentOrder(Evs(Invocations))
  /\ \A i, j \in DOMAIN Replies : i < j => Replies[i].cmd < Replies[j].cmd

\* C8 amended: events are evaluated in the order they were enqueued and each of
\* the capture, silence and drop callbacks is called with its events in that
\* order; the commands answered are the first ones enqueued, in that order.
C8_Fifo ==
  /\ (Ids(evaluated) \o Current) \o Ids(event_q) = sent
  /\ \A kind \in {"capture", "silence", "drop"} : InSentOrder(Evs(Calls(kind)))
  /\ [i \in DOMAIN Replies |-> Replies[i].cmd] \o Ids(command_q)
       = [i \in 1 .. cmd_seq |-> i]

\* C8 witness: two events, sent in the opposite order of their ids, were
\* evaluated and delivered, and two commands answered
C8_Witness ==
  /\ sent = << 1, 0 >>
  /\ Len(evaluated) = 2
  /\ Len(Invocations) = 2
  /\ Len(Replies) = 2

\* C9: whenever the loop is at its select! with an event and a command both
\* queued, it can take either one next.
C9_EitherOrder ==
  pc = "select" /\ event_q /= << >> /\ command_q /= << >>
    => (ENABLED recv_event) /\ (ENABLED recv_command)

\* C9 witness: a command has been handled and answered while an event is
\* still queued, unevaluated
C9_Witness ==
  /\ pc = "select"
  /\ evaluated = << >>
  /\ event_q /= << >>
  /\ Replies /= << >>

BothClosedAndEmpty ==
  event_closed /\ event_q = << >> /\ command_closed /\ command_q = << >>

\* C10: the loop has ended only if both queues are closed and empty; at its
\* select! it cannot end otherwise, and while an item is queued, or handle_event
\* is running, the loop has a step to take.
C10_TerminatesOnlyWhenBothClosed ==
  /\ pc = "done" => BothClosedAndEmpty
  /\ pc = "select" /\ ~BothClosedAndEmpty => ~ENABLED break
  /\ pc = "select" /\ event_q /= << >> => ENABLED recv_event
  /\ pc = "select" /\ command_q /= << >> => ENABLED recv_command
  /\ pc = "decided" => ENABLED dispose

\* C10 witness: with the command queue closed, the loop has gone on to evaluate
\* the queued events and has then ended
C10_Witness ==
  /\ pc = "done"
  /\ Len(evaluated) = 2
  /\ Replies = << >>

\* the ids of the commands answered, in the order of the replies
Answered == [i \in DOMAIN Replies |-> Replies[i].cmd]

\* C11: when the loop has ended, both queues are empty, every event that was
\* sent has been evaluated and every command that was sent has been answered.
C11_DrainedBeforeStop ==
  pc = "done" =>
    /\ event_q = << >> /\ command_q = << >>
    /\ Ids(evaluated) = sent
    /\ Len(sent) = event_id
    /\ Answered = [i \in 1 .. cmd_seq |-> i]

\* C11 witness: the loop has ended after it took an event and a command from
\* queues whose last sender was already dropped
C11_Witness ==
  /\ pc = "done"
  /\ drained = {"event", "command"}
  /\ Len(evaluated) = 2
  /\ Len(Replies) = 2

\* C12: under the fairness of the loop, every command in the command queue is
\* answered at some later time, and whenever the event queue holds an event the
\* loop takes an event from it at some later time, in runs where events, or
\* commands, keep being enqueued for ever as well.
C12_NoStarvation ==
  /\ \A c \in 1 .. MaxCmds : Queued(c) ~> (RepliesTo(c) /= {})
  /\ (event_q /= << >>) ~> (pc = "decided")

\* C12 witness: every event sent before the past was forgotten has been taken
\* off the queue, one more event (more than MaxEvents in all) is in the queue,
\* and a command has been answered
C12_Witness ==
  /\ event_id = MaxEvents
  /\ emitting = {}
  /\ Len(sent) = 1
  /\ event_q /= << >>
  /\ RepliesTo(1) /= {}

\* the command the loop is about to take, when it is one of these operations on
\* a tab the routing table does not have
MissingTab(ops) ==
  /\ command_q /= << >>
  /\ Head(command_q).op \in ops
  /\ Head(command_q).name \notin DOMAIN tabs

\* C13: handling an UpdateTab or a RemoveTab that names a tab the routing table
\* does not have sends one reply, the error "not found", and leaves the routing
\* table as it was: UpdateTab does not create the tab.
C13_MissingTabIsAnError ==
  [][(Handles("UpdateTab") \/ Handles("RemoveTab")) /\ MissingTab({"UpdateTab", "RemoveTab"}) =>
       /\ tabs' = tabs
       /\ out' = Append(out, Sent(Head(command_q).id, "not found"))]_vars

\* C13 witness: two commands on the missing tab A were both answered "not found"
\* and the tab is still missing
C13_Witness ==
  /\ "A" \notin DOMAIN tabs
  /\ Len(out) = 2
  /\ \A i \in DOMAIN out : out[i].t = "reply" /\ out[i].msg = "not found"

AnsweredWithError == \E i \in DOMAIN out : out[i].t = "reply" /\ out[i].msg /= "ok"

\* C14: once a command has been answered with an error the loop is still
\* running: it has not ended unless both queues are closed and empty, at its
\* select! it can take the next command and the next event, and inside
\* handle_event it can finish the event.
C14_ErrorNotFatal ==
  AnsweredWithError =>
    /\ pc = "done" => BothClosedAndEmpty
    /\ pc = "select" /\ command_q /= << >> => ENABLED recv_command
    /\ pc = "select" /\ event_q /= << >> => ENABLED recv_event
    /\ pc = "decided" => ENABLED dispose

\* C14 witness: after the reply "not found" a later command was answered with
\* success and a later event was evaluated and handed to the callback that
\* command installed
C14_Witness ==
  /\ Len(out) = 3
  /\ out[1].t = "reply" /\ out[1].msg = "not found"
  /\ out[2].t = "reply" /\ out[2].msg = "ok"
  /\ out[3].t \in {"capture", "silence", "drop"} /\ out[3].cb = out[2].cmd

\* C15: handling AddTab(name, set) sends one reply, success, and leaves a
\* routing table that maps name to set, whether or not it had the name before,
\* and every other name to what it was mapped to.
C15_AddTabInsertsOrOverwrites ==
  [][Handles("AddTab") =>
       LET cmd == Head(command_q)
       IN /\ DOMAIN tabs' = DOMAIN tabs \cup {cmd.name}
          /\ tabs'[cmd.name] = cmd.set
          /\ \A n \in DOMAIN tabs \ {cmd.name} : tabs'[n] = tabs[n]
          /\ out' = Append(out, Sent(cmd.id, "ok"))]_vars

\* C15 witness: AddTab has given tab A, which the configuration created with one
\* rule, its new set of two rules, next to the tabs B and C of the configuration
C15_Witness ==
  /\ DOMAIN tabs = {"A", "B", "C"}
  /\ tabs["A"] = SetBoth /\ tabs["B"] = SetNet /\ tabs["C"] = SetExc
  /\ Len(out) = 1 /\ out[1] = Sent(1, "ok")

\* the step in which the loop takes an event and runs the for loop of handle_event
EvaluatesTabs == pc = "select" /\ pc' = "decided"

\* C16: handling UpdateTab(name, set) for a tab the routing table has leaves the
\* table mapping name to set and nothing else changed, and answers success; and
\* the for loop of handle_event puts a tab on captured_by or silenced_by by the
\* rules the table maps it to at that time and by no others.
C16_UpdateReplacesWholesale ==
  [][/\ Handles("UpdateTab") /\ Head(command_q).name \in DOMAIN tabs =>
          /\ tabs' = [tabs EXCEPT ![Head(command_q).name] = Head(command_q).set]
          /\ out' = Append(out, Sent(Head(command_q).id, "ok"))
     /\ EvaluatesTabs =>
          LET e == event'[1].data
          IN /\ Range(captured_by') = Including(e)
             /\ Range(silenced_by') = Excluding(e)]_vars

\* C16 witness: after UpdateTab gave tab A, which had the include rule s*, the
\* exclude rule n* alone, an event with module sa and span nr is captured by B
\* only and A is among its silencers
C16_Witness ==
  /\ pc = "decided"
  /\ out = << Sent(1, "ok") >>
  /\ DOMAIN tabs = {"A", "B", "C"} /\ tabs["A"] = SetExc
  /\ event[1].data = EvNet
  /\ captured_by = << "B" >>
  /\ "A" \in Range(silenced_by)

\* the tab names handle_event hands on when it ends: to a callback, or to the
\* pending buffer
NamesHandedOn ==
  UNION {Range(Added[i].tabs) : i \in DOMAIN Added}
    \cup (IF Len(pending_captured_events') > Len(pending_captured_events)
          THEN Range(Last(pending_captured_events').tabs) ELSE {})

\* C17: handling RemoveTab(name) for a tab the routing table has takes that
\* entry, and no other, out of the table and answers success; and an event
\* handle_event processes is handed on with names of tabs the table has at that
\* time only, and is DROPPED when no tab of the table claims it.
C17_RemovedTabClaimsNothing ==
  [][/\ Handles("RemoveTab") /\ Head(command_q).name \in DOMAIN tabs =>
          /\ tabs' = Remove(tabs, Head(command_q).name)
          /\ Head(command_q).name \notin DOMAIN tabs'
          /\ out' = Append(out, Sent(Head(command_q).id, "ok"))
     /\ EndsHandleEvent =>
          /\ NamesHandedOn \subseteq DOMAIN tabs
          /\ Including(event[1].data) = {} /\ Excluding(event[1].data) = {} =>
               /\ Last(evaluated').disp = "dropped"
               /\ counters' = [counters EXCEPT !.dropped = @ + 1]]_vars

\* C17 witness: after RemoveTab took tab A out of the configured tabs, the for
\* loop of handle_event has found no tab for an event that A's include rule
\* matches, so that the event is about to be counted as dropped
C17_Witness ==
  /\ pc = "decided"
  /\ DOMAIN tabs = {"B", "C"}
  /\ out = << Sent(1, "ok") >>
  /\ event[1].data = EvInfo
  /\ MatcherMatches(IncSvc, event[1].data)
  /\ Disposition(captured_by, silenced_by) = "dropped"

\* C18: handling ClearStats sets the captured, silenced and dropped counters to
\* 0, answers success, and leaves the pending buffer, the three callback slots,
\* the routing table and the event id counter as they were.
C18_ClearStatsFrame ==
  [][Handles("ClearStats") =>
       /\ counters' = [captured |-> 0, silenced |-> 0, dropped |-> 0]
       /\ out' = Append(out, Sent(Head(command_q).id, "ok"))
       /\ UNCHANGED << pending_captured_events, callback, silenced_callback,
                       dropped_callback, tabs, event_id >>]_vars

\* C18 witness: the counters are 0 after two events were counted, one of them
\* dropped, while a captured event is still in the pending buffer and the event
\* id counter stands at 2
C18_Witness ==
  /\ counters = [captured |-> 0, silenced |-> 0, dropped |-> 0]
  /\ \E i \in DOMAIN evaluated : evaluated[i].disp = "dropped"
  /\ Len(pending_captured_events) = 1
  /\ event_id = 2
  /\ out = << Sent(1, "ok") >>

CallsIn(o) == SelectSeq(o, LAMBDA x : x.t /= "reply")

\* C19: handling a set-callback command puts the new callback into its slot,
\* the two other slots staying as they are, and what it drains goes to the new
\* callback; handle_event calls the callback its slot holds at that time and no
\* other; and no event is handed to callbacks of one kind twice, replaced or not.
C19_CallbackReplaced ==
  [][/\ Handles("SetCallback") =>
          /\ callback' = Head(command_q).id
          /\ UNCHANGED << silenced_callback, dropped_callback >>
          /\ \A i \in DOMAIN Added : Added[i].t = "reply" \/ Added[i].cb = callback'
     /\ Handles("SetSilencedCallback") =>
          /\ silenced_callback' = Head(command_q).id
          /\ UNCHANGED << callback, dropped_callback >>
     /\ Handles("SetUncapturedCallback") =>
          /\ dropped_callback' = Head(command_q).id
          /\ UNCHANGED << callback, silenced_callback >>
     /\ EndsHandleEvent =>
          \A i \in DOMAIN Added : Added[i].cb = Slot(Added[i].t) /\ Added[i].cb /= 0
     /\ NoRepeat(Evs(CallsIn(out')))]_vars

\* C19 witness: an event went to the first capture callback, a second capture
\* callback was then installed, and a later event went to the second one
C19_Witness ==
  /\ callback = 2
  /\ Len(out) = 4
  /\ out[1] = Sent(1, "ok")
  /\ out[2].t = "capture" /\ out[2].cb = 1
  /\ out[3] = Sent(2, "ok")
  /\ out[4].t = "capture" /\ out[4].cb = 2 /\ out[4].ev /= out[2].ev

\* C20: when handle_event ends for a silenced event with no silence callback
\* set, or for a dropped event with no drop callback set, the counter of that
\* disposition grows by 1, no callback is called and nothing is added to the
\* pending buffer; and handling a set-silence-callback or set-drop-callback
\* command calls no callback: it only answers.
C20_NoBufferForSilencedOrDropped ==
  [][/\ EndsHandleEvent =>
          LET d == Expected(event[1].data)
          IN (d = "silenced" /\ silenced_callback = 0) \/ (d = "dropped" /\ dropped_callback = 0) =>
               /\ counters' = [counters EXCEPT ![d] = @ + 1]
               /\ out' = out
               /\ pending_captured_events' = pending_captured_events
     /\ Handles("SetSilencedCallback") \/ Handles("SetUncapturedCallback") =>
          out' = Append(out, Sent(Head(command_q).id, "ok"))]_vars

\* C20 witness: a silenced and a dropped event were counted while no callback
\* was set; the silence and the drop callback were installed afterwards and
\* nothing was delivered to them
C20_Witness ==
  /\ counters = [captured |-> 0, silenced |-> 1, dropped |-> 1]
  /\ silenced_callback /= 0 /\ dropped_callback /= 0
  /\ Len(evaluated) = 2
  /\ pending_captured_events = << >>
  /\ \A i \in DOMAIN out : out[i].t = "reply"

\* a list of tab names that names exactly the tabs of a set, each once
Exactly(names, set) == Range(names) = set /\ Len(names) = Cardinality(set)

\* C21: when handle_event ends, captured_by names exactly the tabs that include
\* the event and do not exclude it, silenced_by exactly the tabs that have an
\* exclude rule matching it, each once and no tab in both; a capture callback
\* (or the pending buffer) gets captured_by and a silence callback silenced_by.
C21_ExactTabLists ==
  [][EndsHandleEvent =>
       LET e == event[1].data
           d == Expected(e)
       IN /\ Exactly(captured_by, Including(e))
          /\ Exactly(silenced_by, Excluding(e))
          /\ Range(captured_by) \cap Range(silenced_by) = {}
          /\ d = "captured" /\ callback /= 0 =>
               Added = << Invoke("capture", callback, event[1].id, captured_by) >>
          /\ d = "captured" /\ callback = 0 =>
               pending_captured_events' =
                 Append(pending_captured_events, [ev |-> event[1].id, tabs |-> captured_by])
          /\ d = "silenced" /\ silenced_callback /= 0 =>
               Added = << Invoke("silence", silenced_callback, event[1].id, silenced_by) >>]_vars

\* C21 witness: the silence callback was called with the two tabs A and C that
\* exclude the event, A holding an include rule that matches it as well
C21_Witness ==
  /\ Len(out) = 3
  /\ out[3].t = "silence"
  /\ Range(out[3].tabs) = {"A", "C"} /\ Len(out[3].tabs) = 2
  /\ DOMAIN tabs = {"A", "C"} /\ tabs["A"] = SetBoth

Total(c) == c.captured + c.silenced + c.dropped
NumberOf(disp) == Len(SelectSeq(evaluated, LAMBDA x : x.disp = disp))

\* C22: the sum of the three counters grows by exactly 1 each time handle_event
\* ends, is set to 0 by ClearStats and is changed by no other step; no counter
\* exceeds the number of events evaluated with its disposition; and the capture
\* deliveries made plus the captured events still buffered are as many as the
\* events evaluated as captured.
C22_CountersAddUp ==
  /\ [][/\ EndsHandleEvent => Total(counters') = Total(counters) + 1
        /\ Handles("ClearStats") => Total(counters') = 0
        /\ ~EndsHandleEvent /\ ~Handles("ClearStats") => counters' = counters]_vars
  /\ [](/\ \A d \in {"captured", "silenced", "dropped"} : counters[d] <= NumberOf(d)
        /\ Len(Calls("capture")) + Len(pending_captured_events) = NumberOf("captured"))

\* C22 witness: the two events of the run were both captured, the queue is
\* drained, the captured counter reads 2 and the capture callback was called
\* twice, once from the pending buffer
C22_Witness ==
  /\ event_id = MaxEvents /\ emitting = {} /\ event_q = << >> /\ pc = "select"
  /\ counters = [captured |-> MaxEvents, silenced |-> 0, dropped |-> 0]
  /\ Len(Calls("capture")) = MaxEvents
  /\ Len(out) = MaxEvents + 1
  /\ out[2].t = "reply"

\* ---- the rule model: Matcher::matches
\* the call has returned; its arguments and its result
Returned == args.fn = "Matcher::matches" /\ ret /= None
\* the severity order TRACE < DEBUG < INFO < WARN < ERROR
Severity(level) ==
  CASE level = "TRACE" -> 0 [] level = "DEBUG" -> 1 [] level = "INFO" -> 2
    [] level = "WARN" -> 3 [] level = "ERROR" -> 4
\* the rule constrains nothing but the level
LevelOnly(m) ==
  /\ m.module_patterns = << >> /\ m.file_patterns = << >>
  /\ m.span_patterns = << >> /\ m.target_patterns = << >>

\* C23: Matcher::matches returns false for every event that is less severe
\* than the rule's level in the order TRACE < DEBUG < INFO < WARN < ERROR,
\* whatever the other attributes are; a rule with no patterns matches exactly
\* the events at least as severe as its level, so a TRACE rule matches every
\* event and an ERROR rule the ERROR events only.
C23_LevelThreshold ==
  Returned =>
    LET m == args.self  e == args.event IN
      /\ Severity(e.level) < Severity(m.level) => ret[1] = FALSE
      /\ LevelOnly(m) => (ret[1] <=> Severity(e.level) >= Severity(m.level))
      /\ LevelOnly(m) /\ m.level = "TRACE" => ret[1] = TRUE
      /\ LevelOnly(m) /\ m.level = "ERROR" => (ret[1] <=> e.level = "ERROR")
C23_Witness ==
  /\ Returned /\ ret[1] = FALSE
  /\ args.self.level = "WARN" /\ args.event.level = "INFO"
  /\ LevelOnly(args.self)
  /\ args.event.module_path /= None /\ args.event.file /= None

\* one of the patterns matches the value of an attribute the event carries
OneOf(patterns, value) ==
  value /= None /\ \E p \in Range(patterns) : matches(p, value[1])
\* "*" is one of the patterns
HasWildcard(patterns) == << "*" >> \in Range(patterns)
\* the module check: with a module path one of the patterns matches it,
\* without one the list holds the pattern "*"
ModulePasses(m, e) ==
  \/ m.module_patterns = << >>
  \/ OneOf(m.module_patterns, e.module_path)
  \/ e.module_path = None /\ HasWildcard(m.module_patterns)

\* C24: Matcher::matches returns true exactly when the level check and the
\* module, file, span and target checks all pass (AND across the attributes);
\* the check of an attribute passes when one of its patterns matches (OR among
\* the patterns), and an attribute with an empty pattern list is not checked.
C24_AndAcrossOrAmong ==
  Returned =>
    LET m == args.self  e == args.event IN
      ret[1] <=>
        /\ Severity(e.level) >= Severity(m.level)
        /\ ModulePasses(m, e)
        /\ m.file_patterns = << >> \/ OneOf(m.file_patterns, e.file)
        /\ m.span_patterns = << >> \/ OneOf(m.span_patterns, e.span_name)
        /\ m.target_patterns = << >> \/ OneOf(m.target_patterns, Some(e.target))
\* a match through the second pattern of three attributes, the span unconstrained
C24_Witness ==
  /\ Returned /\ ret[1] = TRUE
  /\ args.self.module_patterns = << << "o" >>, << "s", "*" >> >>
  /\ args.self.file_patterns = << << "o" >>, << "s", "*" >> >>
  /\ args.self.target_patterns = << << "o" >>, << "s", "*" >> >>
  /\ args.self.span_patterns = << >>
  /\ args.event.span_name /= None

\* C25: for an event without a module path, a rule that has module patterns
\* passes the module check only if one of the patterns is exactly "*": with
\* module patterns none of which is "*" Matcher::matches returns false, and a
\* rule without module patterns is judged by its other checks alone.
C25_NoModulePath ==
  Returned /\ args.event.module_path = None =>
    LET m == args.self  e == args.event
        others == /\ Severity(e.level) >= Severity(m.level)
                  /\ m.file_patterns = << >> \/ OneOf(m.file_patterns, e.file)
                  /\ m.span_patterns = << >> \/ OneOf(m.span_patterns, e.span_name)
                  /\ m.target_patterns = << >> \/ OneOf(m.target_patterns, Some(e.target))
    IN /\ m.module_patterns /= << >> /\ ~HasWildcard(m.module_patterns) => ret[1] = FALSE
       /\ m.module_patterns = << >> \/ HasWildcard(m.module_patterns) => (ret[1] <=> others)
\* the pattern "**" matches every module path, and is not the wildcard
C25_Witness ==
  /\ Returned /\ ret[1] = FALSE
  /\ args.event.module_path = None
  /\ args.self.module_patterns = << << "*", "*" >> >>
  /\ args.self.level = "TRACE"
  /\ args.self.file_patterns = << >> /\ args.self.span_patterns = << >>
  /\ args.self.target_patterns = << >>

\* C26: a rule with file patterns matches no event without a file, and a rule
\* with span patterns no event without a span name, also when the pattern is
\* "*"; of the module, file and span checks only the module check lets the
\* wildcard pass an absent attribute.
C26_NoFileNoSpan ==
  Returned =>
    LET m == args.self  e == args.event IN
      /\ m.file_patterns /= << >> /\ e.file = None => ret[1] = FALSE
      /\ m.span_patterns /= << >> /\ e.span_name = None => ret[1] = FALSE
\* the same rule and event pass when the file pattern "*" is taken away
C26_Witness ==
  /\ Returned /\ ret[1] = FALSE
  /\ args.event.file = None /\ args.event.module_path = None
  /\ args.self.file_patterns = << << "*" >> >>
  /\ args.self.module_patterns = << << "*" >> >>
  /\ MatcherMatches([args.self EXCEPT !.file_patterns = << >>], args.event)

\* ---- the rule model: matches
\* the call of matches has returned
Matched == args.fn = "matches" /\ ret /= None
\* glob matching of the whole value: "*" stands for any substring, the empty
\* one too, and every other character for itself
RECURSIVE Glob(_, _)
Glob(pattern, value) ==
  IF pattern = << >> THEN value = << >>
  ELSE IF Head(pattern) = "*"
    THEN Glob(Tail(pattern), value) \/ (value /= << >> /\ Glob(pattern, Tail(value)))
    ELSE value /= << >> /\ Head(value) = Head(pattern) /\ Glob(Tail(pattern), Tail(value))
\* the pattern is made of letters, digits, the underscore and "*"
Plain(pattern) == Range(pattern) \subseteq {"a", "b", "B", "1", "_", "*"}

\* C27: for a pattern made of letters, digits, the underscore and "*", matches
\* returns the glob match of the whole value, "*" standing for any substring:
\* anchored at both ends and case-sensitive.
C27_GlobOfWholeValue ==
  Matched /\ Plain(args.pattern) => (ret[1] <=> Glob(args.pattern, args.value))
\* the same for the values that hold no line feed
C27_GlobWithoutLineFeed ==
  Matched /\ Plain(args.pattern) /\ "\n" \notin Range(args.value)
    => (ret[1] <=> Glob(args.pattern, args.value))
\* "b*" against "b", a line feed, "b": the glob match is true, matches says false
C27_Witness ==
  /\ Matched /\ ret[1] = FALSE
  /\ args.pattern = << "b", "*" >> /\ args.value = << "b", "\n", "b" >>

\* C28: every pattern character other than "*" matches itself and nothing
\* else, ".", "?", "+", "[" and "(" included: matches returns the glob match
\* for every pattern, and the pattern "a.b" matches the value "a.b" only.
C28_OnlyStarIsSpecial ==
  Matched =>
    /\ ret[1] <=> Glob(args.pattern, args.value)
    /\ args.pattern = << "a", ".", "b" >> => (ret[1] <=> args.value = << "a", ".", "b" >>)
\* "a.b" against "a1b": matches says true
C28_Witness ==
  /\ Matched /\ ret[1] = TRUE
  /\ args.pattern = << "a", ".", "b" >> /\ args.value = << "a", "1", "b" >>

\* a class or a group is opened in the pattern and never closed
Uncompilable(pattern) ==
  \E i \in DOMAIN pattern : pattern[i] \in {"[", "("}
\* the patterns of the list are all uncompilable, and there is one
OnlyUncompilable(patterns) ==
  patterns /= << >> /\ \A i \in DOMAIN patterns : Uncompilable(patterns[i])

C30_OneRulePerCombination ==
  \A a \in matchers : \A b \in matchers : Eq(a, b) => a = b
\* the same for the sets whose RandomState gives equal tags to rules that are Eq
C30_WhenHashAgreesWithEq ==
  (\A a \in SetRules : \A b \in SetRules :
     Eq(a, b) => Hash(hash_builder, a) = Hash(hash_builder, b))
  => C30_OneRulePerCombination
\* add_matcher of an exclude rule to a set that holds the include rule with
\* the same level and patterns: the set holds both
C30_Witness ==
  /\ args.fn = "add_matcher"
  /\ args.filter = Matcher("INFO", FALSE, << << "s", "*" >> >>, << >>, << >>, << >>)
  /\ matchers = {args.filter, [args.filter EXCEPT !.include = TRUE]}

\* the rules of the set that are Eq to m
EqTo(m) == {x \in matchers : Eq(x, m)}
\* m with one of its attributes changed: another level, or a pattern more in
\* one of the four lists
Changed(m) ==
  { [m EXCEPT !.level = IF @ = "INFO" THEN "WARN" ELSE "INFO"],
    [m EXCEPT !.module_patterns = Append(@, << "x" >>)],
    [m EXCEPT !.file_patterns = Append(@, << "x" >>)],
    [m EXCEPT !.span_patterns = Append(@, << "x" >>)],
    [m EXCEPT !.target_patterns = Append(@, << "x" >>)] }

\* two rules are Eq exactly when they have the same level and the same four
\* pattern lists: a change of one of them makes them unequal, a change of the
\* polarity does not
C31_EqByAttributes ==
  \A a \in SetRules :
    /\ \A b \in SetRules :
         Eq(a, b) <=> [a EXCEPT !.include = TRUE] = [b EXCEPT !.include = TRUE]
    /\ \A b \in Changed(a) : ~Eq(a, b)
    /\ Eq(a, [a EXCEPT !.include = ~@])

\* C31: rules are equal exactly when their level and their module, file, span
\* and target pattern lists are the same, and the set treats equal rules as
\* one rule: after with_matcher or add_matcher of a rule the set holds that
\* rule and no other rule equal to it, after remove_matcher of a rule it holds
\* no rule equal to it, after from_matchers it holds one rule for each rule
\* it was given.
C31_EqualRulesAreOneRule ==
  /\ C31_EqByAttributes
  /\ args.fn \in {"with_matcher", "add_matcher"} => EqTo(args.filter) = {args.filter}
  /\ args.fn = "remove_matcher" => EqTo(args.filter) = {}
  /\ args.fn = "from_matchers" =>
       \A i \in DOMAIN args.matchers : Cardinality(EqTo(args.matchers[i])) = 1
\* remove_matcher of the exclude rule answers false and leaves the include
\* rule with the same level and patterns in the set
C31_Witness ==
  /\ args.fn = "remove_matcher" /\ ret = Some(FALSE)
  /\ args.filter = Matcher("INFO", FALSE, << << "s", "*" >> >>, << >>, << >>, << >>)
  /\ matchers = {[args.filter EXCEPT !.include = TRUE]}
\* the same for the sets whose RandomState gives equal tags to rules that are Eq
C31_WhenHashAgreesWithEq ==
  (\A a \in SetRules : \A b \in SetRules :
     Eq(a, b) => Hash(hash_builder, a) = Hash(hash_builder, b))
  => C31_EqualRulesAreOneRule

\* ---- identifiers
\* the ids given to events so far: of the events a thread is still building and
\* of the events sent
IdsEmitting == {e.id : e \in emitting}
\* C32: the ids the adapter gives to events are pairwise distinct, also for
\* events built by several threads at once and for events on the two sides of
\* a ClearStats: no step but the fetch_add of event() and new_span() changes
\* the id counter, which only grows, and every id given is below it.
C32_IdsDistinct ==
  /\ [](/\ NoRepeat(sent)
        /\ Cardinality(IdsEmitting) = Cardinality(emitting)
        /\ IdsEmitting \cap Range(sent) = {}
        /\ \A id \in IdsEmitting \cup Range(sent) : id < event_id
        /\ NoRepeat([i \in DOMAIN evaluated |-> evaluated[i].id]))
  /\ [][/\ event_id' >= event_id
        /\ Handles("ClearStats") => event_id' = event_id]_vars
\* two events evaluated, a ClearStats handled between them
C32_Witness ==
  /\ Len(evaluated) = 2 /\ evaluated[1].id /= evaluated[2].id
  /\ Total(counters) = 1
  /\ \E i \in DOMAIN out : out[i].t = "reply"
\* two threads inside event() at once, each with its id
C32_Concurrent ==
  Cardinality(emitting) = 2

\* ---- sends that fail
\* the loop is gone while this sender exists; the step is a command method of
\* the Tracer; the step is the send at the end of TracingSubscriber::event
Gone == pc = "done"
SendsCommand == cmd_seq' = cmd_seq + 1
SendsEvent == emitting' /= emitting /\ emitting' \subseteq emitting
\* a failed send puts nothing on a queue, and nothing is handled after the end
NotRetried ==
  /\ event_q' = event_q /\ command_q' = command_q /\ sent' = sent
  /\ evaluated' = evaluated /\ disp_vars' = disp_vars

\* C33: a send onto the command channel that fails because the loop is gone
\* makes the Tracer method return Err, and nothing is sent again; the event
\* producer is not told: TracingSubscriber::event ignores the result of its
\* send and returns, the event being discarded.
C33_FailedSend ==
  [][Gone =>
       /\ NotRetried
       /\ SendsCommand => Added = << Err(cmd_seq') >>
       /\ SendsEvent => Added = << >>
       /\ ~SendsCommand => Added = << >>]_vars
\* C33 as stated: the failed send of an event is reported to the producer too
C33_FailedSendReported ==
  [][Gone =>
       /\ NotRetried
       /\ SendsCommand => Added = << Err(cmd_seq') >>
       /\ SendsEvent => Added /= << >>]_vars
\* after the end a command method has returned Err and an event, built and
\* sent by the adapter, is nowhere
C33_Witness ==
  /\ Gone /\ tracer_alive
  /\ out /= << >> /\ Last(out) = Err(cmd_seq)
  /\ event_id = 1 /\ emitting = {} /\ sent = << >> /\ evaluated = << >>

\* ---- the configuration
\* the tab names of a configuration, and the place of the last tab of a name
Names(config) == {config[i].name : i \in DOMAIN config}
LastOf(config, name) ==
  CHOOSE i \in DOMAIN config :
    config[i].name = name /\ \A j \in DOMAIN config : config[j].name = name => j <= i
\* nothing has been processed: no event taken from its queue, no command answered
Untouched == evaluated = << >> /\ event = None /\ out = << >>

\* C34: until the loop has processed its first event or command the routing
\* table holds the tabs of the configuration and no other: one entry for each
\* name, with the rule set of the last tab listed under that name.
C34_SeededFromConfig ==
  Untouched =>
    /\ DOMAIN tabs = Names(args.config)
    /\ \A n \in Names(args.config) :
         tabs[n] = args.config[LastOf(args.config, n)].matcher_set
\* the name A listed twice; the first event is evaluated against the rule set
\* listed last, which silences it
C34_Witness ==
  /\ args.config = << [name |-> "A", matcher_set |-> SetInc],
                      [name |-> "A", matcher_set |-> SetExc] >>
  /\ pc = "decided" /\ evaluated = << >> /\ out = << >>
  /\ silenced_by = << "A" >> /\ captured_by = << >>

\* C35: a callback runs in-line in the dispatcher loop.  From the call of a
\* callback by handle_event to its return the loop takes nothing from either
\* queue, handles no command, calls no other callback and sends no reply, and
\* the dispatcher's fields stay as they are: what is enqueued meanwhile stays
\* in its queue, to be taken by a later iteration.  The callback's return never
\* waits for the loop: it is possible whatever the queues hold.
InCallback == pc = "callback"



C35_CallbackInline ==
  /\ []( InCallback => ENABLED callback_returned )
  /\ [][ InCallback =>
           /\ out' = out
           /\ disp_vars' = disp_vars
           /\ IsPrefix(event_q, event_q')
           /\ IsPrefix(command_q, command_q')
           /\ (pc' /= "callback" =>
                 /\ pc' = "select"
                 /\ event_q' = event_q
                 /\ command_q' = command_q
                 /\ evaluated' = Append(evaluated,
                      [id |-> event[1].id, disp |-> Disposition(captured_by, silenced_by)])) ]_vars

\* a callback is running while a command and an event wait in the queues
C35_Witness ==
  /\ InCallback
  /\ command_q /= << >>
  /\ event_q /= << >>

\* C36: processing an event (handle_event, from the receipt of the event to
\* its end) leaves the routing table and the three callback slots as they are;
\* its end adds one to the one counter of the event's disposition and to no
\* other, and changes the pending buffer only by appending the event when it is
\* captured while no capture callback is set.  The table and the slots change
\* only in a step that takes a command off the command queue.
BeginsHandleEvent == pc = "select" /\ pc' = "decided"

Slots == << callback, silenced_callback, dropped_callback >>

C36_EventFrame ==
  /\ [][ BeginsHandleEvent =>
           /\ disp_vars' = disp_vars
           /\ event_q /= << >> /\ event_q' = Tail(event_q) ]_vars
  /\ [][ EndsHandleEvent =>
           LET d == Disposition(captured_by, silenced_by)
           IN /\ tabs' = tabs
              /\ Slots' = Slots
              /\ counters' = [counters EXCEPT ![d] = @ + 1]
              /\ pending_captured_events' =
                   IF d = "captured" /\ callback = 0
                   THEN Append(pending_captured_events,
                               [ev |-> event[1].id, tabs |-> captured_by])
                   ELSE pending_captured_events ]_vars
  /\ [][ (tabs' /= tabs \/ Slots' /= Slots) =>
           /\ pc = "select" /\ pc' = "select"
           /\ command_q /= << >> /\ command_q' = Tail(command_q)
           /\ event_q' = event_q ]_vars

\* an event has been buffered, another one counted as silenced, while a tab and
\* a silenced callback are in place
C36_Witness ==
  /\ Len(pending_captured_events) = 1
  /\ counters.captured = 1
  /\ counters.silenced = 1
  /\ silenced_callback /= 0
  /\ tabs /= EmptyMap

\* C37: a captured event buffered while no capture callback is set is handed
\* to the callback, when SetCallback is handled, with the tab list handle_event
\* computed for it: the buffer changes only by the entry handle_event appends
\* (the event with its captured_by) and by the drain that empties it, and the
\* drain calls the new callback once for each entry, in order, with the entry's
\* tab list, whatever the routing table holds by then.
C37_DrainAsEvaluated ==
  /\ [][ pending_captured_events' /= pending_captured_events =>
           \/ /\ EndsHandleEvent
              /\ callback = 0
              /\ pending_captured_events' =
                   Append(pending_captured_events,
                          [ev |-> event[1].id, tabs |-> captured_by])
           \/ /\ Handles("SetCallback")
              /\ pending_captured_events' = << >> ]_vars
  /\ [][ Handles("SetCallback") =>
           /\ Len(out') = Len(out) + Len(pending_captured_events) + 1
           /\ \A i \in DOMAIN pending_captured_events :
                out'[Len(out) + i] =
                  Invoke("capture", Head(command_q).id,
                         pending_captured_events[i].ev,
                         pending_captured_events[i].tabs) ]_vars

\* a tab was removed, then the callback installed: the drain has handed the
\* buffered event over with the removed tab on its list
C37_Witness ==
  /\ Len(out) = 3
  /\ out[1].t = "reply" /\ out[1].cmd = 1
  /\ out[2].t = "capture" /\ out[2].cb = 2
  /\ out[3].t = "reply" /\ out[3].cmd = 2
  /\ callback = 2
  /\ \E j \in DOMAIN out[2].tabs : out[2].tabs[j] \notin DOMAIN tabs

\* C38: once a capture callback is installed the capture slot is never empty
\* again, and whenever the slot is filled the pending buffer is empty: the
\* buffer holds events only while no SetCallback command has been handled.

C38_BufferOnlyBeforeCallback ==
  /\ []( callback /= 0 => pending_captured_events = << >> )
  /\ []( pending_captured_events /= << >> =>
           \A i \in DOMAIN out : out[i].t /= "capture" )
  /\ [][ callback /= 0 => callback' /= 0 ]_vars
  /\ [][ (callback = 0 /\ callback' /= 0) => Handles("SetCallback") ]_vars

\* a callback is installed, and after that a captured event went to it
\* directly while the buffer stayed empty
C38_Witness ==
  /\ callback /= 0
  /\ pending_captured_events = << >>
  /\ pc = "select"
  /\ Len(out) >= 2
  /\ out[1].t = "reply" /\ out[1].cmd = callback
  /\ out[Len(out)].t = "capture"
  /\ counters.captured = 2

\* C39: the three counters are reset as a group.  A reader that has loaded
\* captured, silenced and dropped while one ClearStats was being handled has
\* got either the three values the counters had before the clear or three
\* zeros.
ReadDuringClear ==
  /\ DOMAIN ret = CounterNames
  /\ args.fn = "clear"
  /\ \A n \in CounterNames : ret[n].during = args.cmd.id

C39_ResetAsGroup ==
  ReadDuringClear =>
    \/ \A n \in CounterNames : ret[n].v = args.pre[n]
    \/ \A n \in CounterNames : ret[n].v = 0

\* C39, as the code has it: each counter by itself is cleared in one store, so
\* each value loaded while a ClearStats is being handled is that counter's value
\* before the clear or zero, and in every state of the clear the counters
\* already stored are zero while the others still hold their values, captured
\* being stored first, then silenced, then dropped: a reader can get captured
\* zero next to the old silenced and dropped, but never a cleared dropped next
\* to an uncleared captured from one state.
C39_ResetOneByOne ==
  /\ ReadDuringClear =>
       \A n \in CounterNames : ret[n].v \in {args.pre[n], 0}
  /\ pc = "clear_captured" => counters = args.pre
  /\ pc = "clear_silenced" => counters = [args.pre EXCEPT !.captured = 0]
  /\ pc = "clear_dropped" => counters = [args.pre EXCEPT !.captured = 0, !.silenced = 0]

\* a reader got zero for captured, which was not zero before the clear, and
\* the old value of another counter, which the clear had not stored yet, all
\* three loaded during the same clear
C39_Witness ==
  /\ ReadDuringClear
  /\ args.pre.captured /= 0
  /\ ret["captured"].v = 0
  /\ \E n \in {"silenced", "dropped"} : args.pre[n] /= 0 /\ ret[n].v = args.pre[n]

\* C40: while the Tracer handle exists neither queue is closed and the loop
\* has not ended and cannot end.  Once the handle is dropped nothing is added
\* to the command queue any more, but as long as the adapter, which holds a
\* clone of the event sender, exists, the loop still has not ended and cannot
\* end, takes the events that are queued, and ends handle_event as before:
\* the event is evaluated and the callback of its disposition, when one is
\* set, is called with it.
OnlyAdapter == ~tracer_alive /\ adapter_alive

C40_SendersKeepLoop ==
  /\ []( tracer_alive => ~event_closed /\ ~command_closed )
  /\ []( (tracer_alive \/ adapter_alive) => pc /= "done" /\ ~ENABLED break )
  /\ []( (OnlyAdapter /\ pc = "select" /\ event_q /= << >>) => ENABLED recv_event )
  /\ [][ ~tracer_alive => (command_q' = command_q \/ command_q' = Tail(command_q)) ]_vars
  /\ [][ (OnlyAdapter /\ EndsHandleEvent) =>
           LET d == Disposition(captured_by, silenced_by)
               names == CASE d = "captured" -> captured_by
                          [] d = "silenced" -> silenced_by
                          [] d = "dropped"  -> << >>
           IN /\ evaluated' = Append(evaluated, [id |-> event[1].id, disp |-> d])
              /\ Slot(KindOf(d)) /= 0 =>
                   out' = Append(out, Invoke(KindOf(d), Slot(KindOf(d)), event[1].id, names)) ]_vars

\* the handle is gone, the adapter is not: the loop is back at its select!
\* after it evaluated the second event and called a callback with it
C40_Witness ==
  /\ OnlyAdapter
  /\ pc = "select"
  /\ command_q = << >>
  /\ Len(evaluated) = 2
  /\ out /= << >>
  /\ out[Len(out)].t /= "reply"
  /\ out[Len(out)].ev = evaluated[2].id

====
